---- MODULE Spec2Model ----
(***************************************************************************)
(* A model of the stormfinder enumeration pipeline:                        *)
(*   - the aggregator's normalisation (the strings.Replacer `replacer`),   *)
(*   - Runner.EnumerateSingleDomainWithCtx (aggregator goroutine, resolver *)
(*     result loop, enhanced phase, writers, statistics post-pass),        *)
(*   - BruteForcer.BruteForce (wildcard detection, worker pool).           *)
(* Host names are TLA+ strings; the character U+2022 (bullet) of the       *)
(* replacer is written "~", which occurs in no other role.                 *)
(***************************************************************************)
EXTENDS Integers, Sequences, FiniteSets, Bags, TLC

(***************************************************************************)
(* Strings (package strings)                                               *)
(***************************************************************************)
HasPrefix(s, p) == Len(p) <= Len(s) /\ SubSeq(s, 1, Len(p)) = p

HasSuffix(s, p) == Len(p) <= Len(s) /\ SubSeq(s, Len(s) - Len(p) + 1, Len(s)) = p

DropPrefix(s, n) == IF n >= Len(s) THEN "" ELSE SubSeq(s, n + 1, Len(s))

Bullet == "~"

\* A replacer whose pair list lacks the wildcard prefix "*.".
replacerNoWildcard ==
  << << "/", "" >>,
     << Bullet \o ".", "" >>,
     << Bullet, "" >>,
     << "http://", "" >>,
     << "https://", "" >>
  >>

\* var replacer = strings.NewReplacer(old1, new1, old2, new2, ...)
replacer ==
  << << "/", "" >>,
     << Bullet \o ".", "" >>,
     << Bullet, "" >>,
     << "*.", "" >>,
     << "http://", "" >>,
     << "https://", "" >>
  >>

\* genericReplacer.lookup: among the old strings that are a prefix of s, the
\* one given first in the argument list wins; 0 when none matches.
Lookup(s) ==
  LET hits == { k \in 1..Len(replacer) : HasPrefix(s, replacer[k][1]) }
  IN IF hits = {} THEN 0 ELSE CHOOSE k \in hits : \A j \in hits : k <= j

\* (*Replacer).Replace: one left-to-right pass, matches do not overlap and the
\* replacement text is never rescanned.
RECURSIVE Replace(_)
Replace(s) ==
  IF s = "" THEN ""
  ELSE LET k == Lookup(s)
       IN IF k # 0
          THEN replacer[k][2] \o Replace(DropPrefix(s, Len(replacer[k][1])))
          ELSE SubSeq(s, 1, 1) \o Replace(DropPrefix(s, 1))

TrimSuffix(s, suf) == IF HasSuffix(s, suf) THEN SubSeq(s, 1, Len(s) - Len(suf)) ELSE s

Contains(s, sub) ==
  \E i \in 1..(Len(s) - Len(sub) + 1) : SubSeq(s, i, i + Len(sub) - 1) = sub

\* strings.Split(s, ".")[0] and len(strings.Split(s, "."))
FirstLabel(s) ==
  LET dots == { i \in 1..Len(s) : SubSeq(s, i, i) = "." }
  IN IF dots = {} THEN s
     ELSE SubSeq(s, 1, (CHOOSE i \in dots : \A j \in dots : i <= j) - 1)

NumParts(s) == Cardinality({ i \in 1..Len(s) : SubSeq(s, i, i) = "." }) + 1

Take(seq, n) == SubSeq(seq, 1, IF n < Len(seq) THEN n ELSE Len(seq))

Range(seq) == { seq[i] : i \in 1..Len(seq) }

\* Go maps: a missing key reads as the zero value.
Keys(m) == DOMAIN m

CountOf(m, k) == IF k \in DOMAIN m THEN m[k] ELSE 0

Incr(m, k) == IF k \in DOMAIN m THEN [m EXCEPT ![k] = @ + 1] ELSE m @@ (k :> 1)

Put(m, k, v) == IF k \in DOMAIN m THEN [m EXCEPT ![k] = v] ELSE m @@ (k :> v)

EmptyMap == << >>

(***************************************************************************)
(* Bounds of the model                                                     *)
(***************************************************************************)
\* results the sources emit, all together, during a run
MaxEmit == 3
\* the same, for the runs over the wide universe of values
MaxWide == 2
\* the same, for the runs with an enhanced stage
MaxSeed == 2
\* results in flight on the merged passive channel
ChanCap == 1
\* entries read of the word tables (commonWords, wordlist, commonPrefixes)
MaxTable == 1
\* entries read of the auxiliary tables (numbers, environments, regions)
MaxAux == 0
\* hosts the enhanced stages hand back in one run
MaxFound == 1
\* tokens of a normalisation input
MaxTokens == 4
\* words of the brute-force wordlist
MaxWords == 2
\* workers of the brute forcer (b.threads)
MaxThreads == 2
\* entries the resolver pool's task and result channels hold
PoolCap == 1
\* how far the clock of the cache runs
MaxTime == 3
\* the largest TTL a cache is made with
MaxTTL == 1
\* Set calls on a cache
MaxSets == 2

(***************************************************************************)
(* The run's environment                                                   *)
(***************************************************************************)
Apex == "example.com"

Sources == {"s1", "s2"}

\* Values the providers' answers hold (a small and a wide universe).
NarrowValues == { "*.a.example.com", "b.example.com", "notrelated.other.com" }

\* Values the passive phase hands the enhanced phase as seeds.
SeedValues == { "a_b.example.com", "*.a_b.example.com", "notrelated.other.com" }

\* Seeds of which one is a name the brute-force stage finds again.
RediscoverValues == { "www.example.com", "a_b.example.com", "notrelated.other.com" }

WideValues ==
  { "a.example.com", "*.a.example.com", "https://a.example.com/path",
    "  a.example.com  ", "A.EXAMPLE.COM", "http://a.example.com",
    "*.example.com", "notrelated.other.com", "**..a.example.com" }

\* A regular expression is modelled by the literal it searches for.
MatchString(re, s) == Contains(s, re)

\* A slice that may be nil: {} is nil, {seq} is the slice seq.
NilSlice == {}

RegexConfigs ==
  { [filterRegexes |-> NilSlice,    matchRegexes |-> NilSlice],
    [filterRegexes |-> {<<"b.">>},  matchRegexes |-> NilSlice],
    [filterRegexes |-> NilSlice,    matchRegexes |-> {<<"a.", "b.">>}],
    [filterRegexes |-> {<<"a.">>},  matchRegexes |-> {<<"a.", "b.">>}] }

NoRegex == [filterRegexes |-> NilSlice, matchRegexes |-> NilSlice]

\* Which enhanced stages are switched on (BruteForce, Permutations, Recursive,
\* MaxDepth; the flag default of MaxDepth is 3).
StageConfigs ==
  { [BruteForce |-> FALSE, Permutations |-> FALSE, Recursive |-> FALSE, MaxDepth |-> 3],
    [BruteForce |-> TRUE,  Permutations |-> FALSE, Recursive |-> FALSE, MaxDepth |-> 3],
    [BruteForce |-> FALSE, Permutations |-> TRUE,  Recursive |-> FALSE, MaxDepth |-> 3],
    [BruteForce |-> FALSE, Permutations |-> FALSE, Recursive |-> TRUE,  MaxDepth |-> 3],
    [BruteForce |-> FALSE, Permutations |-> FALSE, Recursive |-> TRUE,  MaxDepth |-> 0] }

NoStages == [BruteForce |-> FALSE, Permutations |-> FALSE, Recursive |-> FALSE, MaxDepth |-> 3]

MkOptions(rw, cb, st, stages, rx) ==
  [RemoveWildcard |-> rw, ResultCallback |-> cb, Statistics |-> st,
   BruteForce |-> stages.BruteForce, Permutations |-> stages.Permutations,
   Recursive |-> stages.Recursive, MaxDepth |-> stages.MaxDepth,
   filterRegexes |-> rx.filterRegexes, matchRegexes |-> rx.matchRegexes]

\* Options of the runner the pipeline reads (type Options), no enhanced stage
\* switched on: with and without wildcard removal, callback, statistics, regexes.
PassiveOptions ==
  { MkOptions(rw, TRUE, TRUE, NoStages, NoRegex) : rw \in BOOLEAN }
  \cup { MkOptions(FALSE, TRUE, TRUE, NoStages, rx) : rx \in RegexConfigs }
  \cup { MkOptions(rw, FALSE, rw, NoStages, NoRegex) : rw \in BOOLEAN }

\* Options with an enhanced stage switched on.
EnhancedOptions ==
  { MkOptions(rw, TRUE, TRUE, sc, NoRegex) : rw \in BOOLEAN, sc \in StageConfigs \ {NoStages} }
  \cup { MkOptions(FALSE, TRUE, TRUE,
                   [BruteForce |-> TRUE, Permutations |-> FALSE, Recursive |-> FALSE,
                    MaxDepth |-> 3],
                   [filterRegexes |-> {<<"b.">>}, matchRegexes |-> NilSlice]) }

(***************************************************************************)
(* State                                                                   *)
(***************************************************************************)
VARIABLES
  \* --- Runner.EnumerateSingleDomainWithCtx ---
  opt,             \* r.options, fixed for the run
  wildcardInit,    \* how resolutionPool.InitWildcards ended: "none", "ok", "failed"
  srcData,         \* per source: the values its provider's answer holds
  srcLeft,         \* results the sources may still emit (model budget)
  srcClosed,       \* per source: result stream closed
  srcResults,      \* per source: Source.results
  srcErrors,       \* per source: Source.errors
  passiveResults,  \* the merged channel of subscraping.Result
  aggPc,           \* aggregator goroutine: "loop" | "done"
  uniqueMap,       \* host -> resolve.HostEntry
  sourceMap,       \* host -> set of source names
  skippedCounts,   \* source -> int
  Tasks,           \* resolutionPool.Tasks
  tasksClosed,
  Results,         \* resolutionPool.Results
  resultsClosed,
  foundResults,    \* host -> resolve.Result
  mainPc,          \* position of the calling goroutine
  enhancedResults, \* what is left of the slice EnhancedEnumerate returned
  statistics,      \* the statistics printed after the post-pass
  output,          \* hosts handed to the writers
  returned,        \* what the call returned
  \* --- history (observations, never read by the program) ---
  emitted,         \* <<source, raw value>> of every Subdomain result sent
  stageSent,       \* hosts the enhanced stages reported and the slice holds
  callbacks,       \* host -> number of ResultCallback invocations
  taskSends,       \* host -> number of sends on Tasks
  inserts,         \* host -> number of insertions into uniqueMap
  poolAnswer       \* host -> what the resolver pool decided

VARIABLES
  \* --- the aggregator's normalisation, applied to one value ---
  normInput,       \* result.Value
  normOnce,        \* replacer.Replace(normInput)
  normTwice,       \* replacer.Replace(normOnce)
  normPc,          \* "idle" | "input" | "once" | "twice"
  \* --- BruteForcer.BruteForce ---
  bfPc,            \* the BruteForce goroutine: "idle" | "detect" | "send" | "wait" | "done"
  bfCtxDone,       \* ctx is cancelled
  bfProbes,        \* probes DetectWildcards has made
  wildcardIPs,     \* b.wildcardIPs
  bfNext,          \* index of the next word to put on jobs
  jobs,            \* the jobs channel
  jobsClosed,
  worker,          \* per worker: [pc, word]
  bfResults,       \* the results channel
  bfResultsClosed,
  bfDelivered,     \* subdomains runBruteForce passed on
  bfLookups,       \* history: [name, answer, emitted, by] of every candidate lookup
  threads,         \* b.threads
  probed           \* history: the addresses the probes of this apex answered

VARIABLES
  \* --- cache.Cache over its directory ---
  now,             \* the wall clock
  ttl,             \* c.ttl
  serial,          \* the callers run one cache operation at a time
  files,           \* cacheKey -> the file's content, or NoFile
  setter,          \* the goroutine in Set: [pc, key, data]
  getter,          \* the goroutine in Get: [pc, key, entry, ...]
  lastSet,         \* history: cacheKey -> the entry of the latest Set call
  sets,            \* history: the number of Set calls
  dir              \* c.cacheDir exists

VARIABLES
  \* --- one passive source's Run: its goroutine and the result stream ---
  srcName,         \* s.Name()
  ctxErr,          \* ctx has been cancelled
  consumer,        \* the caller of Run is still receiving from the stream
  goPc,            \* where the goroutine of Run stands
  subdomains,      \* the map of extracted hosts not yet ranged over
  outgoing,        \* the result of the send the goroutine stands in
  stream,          \* history: the results received from the stream, in order
  closes,          \* history: the number of close(results) calls
  counters         \* s.errors, s.results

VARIABLES
  \* --- passive.New ---
  registry,        \* AllSources: the sources, each with what its methods return
  selArgs,         \* the arguments of New
  selPc,           \* "call", "returned", or "exit" after gologger.Fatal
  selSources,      \* the local map sources, when New has run
  warnings,        \* the names New has warned about
  agent            \* Agent.sources

normVars == << normInput, normOnce, normTwice, normPc >>

selVars == << registry, selArgs, selPc, selSources, warnings, agent >>

VARIABLES
  \* --- the contexts of one run of EnumerateSingleDomainWithCtx ---
  elapsed,         \* minutes since the passive enumeration started
  maxTime,         \* options.MaxEnumerationTime
  callerCtx,       \* ctx, the argument of the call: "live" or "cancelled"
  phase,           \* "passive", "enhanced", "done" (or "idle")
  running,         \* the passive sources still running
  candidates,      \* the candidates the active stage has not yet come to
  lookups,         \* history: the tests the active stage has started
  lateLookups      \* history: those started after the deadline had fired

dlVars ==
  << elapsed, maxTime, callerCtx, phase, running, candidates, lookups,
     lateLookups >>

goVars ==
  << srcName, ctxErr, consumer, goPc, subdomains, outgoing, stream, closes,
     counters >>

VARIABLES
  \* --- one call of Generator.GeneratePermutations ---
  permFound,       \* foundSubdomains
  permDomain,      \* baseDomain
  permResult,      \* the returned slice, as the bag of its entries
  permPc           \* "call", "returned" (or "idle")

permVars == << permFound, permDomain, permResult, permPc >>

VARIABLES
  \* --- one call of EnhancedEnumerate with one of its stages switched on ---
  eeArgs,          \* [stage, MaxDepth, resolver, threads, seeds, candidates]
  eeCtxDone,       \* ctx is cancelled
  eeStagePc,       \* the stage's goroutine: "start", "loop", "returned" (or "idle")
  eeTodo,          \* the candidates the stage's loop has not come to
  eeWorker,        \* per candidate: "unborn", "sem", "test", "send", "done", "panic"
  eeTests,         \* history: the bag of the candidates testSubdomain was called with
  resultsChan,     \* the shared results channel
  resultsChanClosed,
  eeSent,          \* history: the hosts sent on resultsChan
  allResults,      \* the map allResults
  collector,       \* the collecting goroutine: [pc, result]
  eePc,            \* EnhancedEnumerate: "wait", "closed", "ranging", "returned", "fatal"
  eeSeen,          \* the keys the final range over allResults has come by
  eeRace           \* history: allResults was read and written at the same time

eeVars ==
  << eeArgs, eeCtxDone, eeStagePc, eeTodo, eeWorker, eeTests, resultsChan,
     resultsChanClosed, eeSent, allResults, collector, eePc, eeSeen, eeRace >>

VARIABLES
  \* --- optimizer.WorkerPool ---
  wpWorkers,       \* wp.workers
  queueSize,       \* the capacity of taskQueue and of resultChan
  wpStarted,       \* Start has been called
  wpPc,            \* Stop: "none", "wait", "closed", "stopped" (or "idle")
  taskQueue,       \* wp.taskQueue
  taskQueueClosed,
  resultChan,      \* wp.resultChan
  resultChanClosed,
  wpCtxDone,       \* wp.ctx is cancelled
  wpWorker,        \* per worker: [pc, task], pc "unborn", "select", "send", "exited", "panic"
  submit,          \* per task, its Submit: "none", "queued", "refused", "panic"
  wpGot            \* history: the results read from Results()

wpVars ==
  << wpWorkers, queueSize, wpStarted, wpPc, taskQueue, taskQueueClosed, resultChan,
     resultChanClosed, wpCtxDone, wpWorker, submit, wpGot >>

\* the parts checked on their own, outside a run
lastVars == << permVars, eeVars, wpVars >>

\* the parts added after the pipeline, the generator and the cache
moreVars == << goVars, selVars, dlVars, lastVars >>

cacheVars == << now, ttl, serial, files, setter, getter, lastSet, sets, dir >>

bruteVars ==
  << bfPc, bfCtxDone, bfProbes, wildcardIPs, bfNext, jobs, jobsClosed, worker,
     bfResults, bfResultsClosed, bfDelivered, bfLookups, threads, probed >>

\* what a run of the pipeline leaves alone
notRun == << normVars, bruteVars, cacheVars, moreVars >>

runVars ==
  << opt, wildcardInit, srcData, srcLeft, srcClosed, srcResults, srcErrors, passiveResults,
     aggPc, uniqueMap, sourceMap, skippedCounts, Tasks, tasksClosed, Results,
     resultsClosed, foundResults, mainPc, enhancedResults, statistics, output,
     returned, emitted, stageSent, callbacks, taskSends, inserts, poolAnswer >>

\* the parts older than lastVars
oldVars == << runVars, normVars, bruteVars, cacheVars, goVars, selVars, dlVars >>

\* what the normalisation of one value leaves alone
notNorm == << runVars, bruteVars, cacheVars, moreVars >>

\* what BruteForce leaves alone
notBrute == << runVars, normVars, cacheVars, moreVars >>

\* what the cache leaves alone
notCache == << runVars, normVars, bruteVars, moreVars >>

\* what a source's Run leaves alone
notGo == << runVars, normVars, bruteVars, cacheVars, selVars, dlVars, lastVars >>

\* what passive.New leaves alone
notSel == << runVars, normVars, bruteVars, cacheVars, goVars, dlVars, lastVars >>

\* what the contexts of a run leave alone
notDl == << runVars, normVars, bruteVars, cacheVars, goVars, selVars, lastVars >>

\* what a call of GeneratePermutations leaves alone
notPerm == << oldVars, eeVars, wpVars >>

\* what a call of EnhancedEnumerate leaves alone
notEe == << oldVars, permVars, wpVars >>

\* what the worker pool leaves alone
notWp == << oldVars, permVars, eeVars >>

(***************************************************************************)
(* permutation.Generator                                                   *)
(***************************************************************************)
commonWords ==
  << "admin", "api", "app", "auth", "backup", "beta", "blog", "cdn", "chat", "cms",
     "dashboard", "db", "demo", "dev", "docs", "email", "ftp", "git", "help", "img",
     "internal", "lab", "mail", "mobile", "new", "old", "portal", "prod", "secure",
     "shop", "stage", "static", "support", "test", "vpn", "web", "wiki", "www",
     "assets", "cache", "cloud", "data", "files", "forum", "home", "media", "news",
     "office", "panel", "proxy", "search", "server", "store", "upload", "video" >>

numbers ==
  << "1", "2", "3", "01", "02", "03", "2020", "2021", "2022", "2023", "2024", "2025" >>

separators == << "-", "_", "" >>

\* fmt.Sprintf("%d", i) for the sequential suffixes 1..10
sequential == << "1", "2", "3", "4", "5", "6", "7", "8", "9", "10" >>

environments ==
  << "dev", "test", "stage", "staging", "prod", "production", "beta", "alpha", "demo", "uat" >>

regions == << "us", "eu", "asia", "uk", "ca", "au", "de", "fr", "jp", "cn" >>

\* The runs of the model read the first entries of a table only.
Table(t) == Range(Take(t, MaxTable))

AuxTable(t) == Range(Take(t, MaxAux))

\* NewGenerator(): the generator with its tables, and the tables its methods
\* hold as literals
NewGenerator ==
  [commonWords |-> Range(commonWords), numbers |-> Range(numbers),
   sequential |-> Range(sequential), environments |-> Range(environments),
   regions |-> Range(regions)]

\* e.permGen as the runs of the model read it
permGen ==
  [commonWords |-> Table(commonWords), numbers |-> AuxTable(numbers),
   sequential |-> AuxTable(sequential), environments |-> AuxTable(environments),
   regions |-> AuxTable(regions)]

\* prefix and suffix forms, fmt.Sprintf("%s%s%s.%s", ...)
Affixed(tokens, subPart, baseDomain) ==
  { tok \o sep \o subPart \o "." \o baseDomain : tok \in tokens, sep \in Range(separators) }
  \cup { subPart \o sep \o tok \o "." \o baseDomain : tok \in tokens, sep \in Range(separators) }

addWordPermutations(g, subPart, baseDomain) == Affixed(g.commonWords, subPart, baseDomain)

addNumberPermutations(g, subPart, baseDomain) ==
  Affixed(g.numbers, subPart, baseDomain)
  \cup { subPart \o i \o "." \o baseDomain : i \in g.sequential }
  \cup { subPart \o "-" \o i \o "." \o baseDomain : i \in g.sequential }

\* the environment tokens as prefixes only
addEnvironmentPrefixes(g, subPart, baseDomain) ==
  { env \o sep \o subPart \o "." \o baseDomain :
      env \in g.environments, sep \in Range(separators) }

addEnvironmentPermutations(g, subPart, baseDomain) ==
  Affixed(g.environments, subPart, baseDomain)

addTLDPermutations(g, subPart, baseDomain) == Affixed(g.regions, subPart, baseDomain)

\* the map permutations, whose keys are copied to the returned slice
GeneratePermutations(g, foundSubdomains, baseDomain) ==
  UNION { LET subPart == TrimSuffix(subdomain, "." \o baseDomain)
          IN IF subPart = subdomain THEN {}
             ELSE addWordPermutations(g, subPart, baseDomain)
                  \cup addNumberPermutations(g, subPart, baseDomain)
                  \cup addEnvironmentPermutations(g, subPart, baseDomain)
                  \cup addTLDPermutations(g, subPart, baseDomain)
        : subdomain \in foundSubdomains }

\* for perm := range permutations { result = append(result, perm) }: every
\* key once, in an order the language leaves open
Slice(permutations) == SetToBag(permutations)

(***************************************************************************)
(* EnhancedEnumerator                                                      *)
(***************************************************************************)
\* loadBuiltinWordlist's fallback list (its first entries)
builtinWordlist == << "www", "mail", "ftp", "localhost", "webmail", "smtp" >>

commonPrefixes ==
  << "api", "admin", "test", "dev", "staging", "prod", "www", "mail", "ftp",
     "secure", "internal", "private", "public", "beta", "alpha", "demo" >>

\* testSubdomain: true exactly when the enumerator holds a resolution pool,
\* which NewEnhancedEnumerator receives only when wildcards are removed.
testSubdomain(options, subdomain) == options.RemoveWildcard

\* runBruteForce: the candidates word.domain BruteForce may report
BruteCandidates(options, domain) ==
  IF options.BruteForce
  THEN { w \o "." \o domain : w \in Table(builtinWordlist) }
  ELSE {}

\* runPermutations: the permutations that pass testSubdomain
PermutationCandidates(options, domain, found) ==
  IF options.Permutations
  THEN { c \in GeneratePermutations(permGen, found, domain) : testSubdomain(options, c) }
  ELSE {}

\* runRecursiveEnumeration at depth 0
RecursiveCandidates(options, domain, found) ==
  IF options.Recursive /\ ~(0 >= options.MaxDepth)
  THEN { c \in { pref \o "." \o FirstLabel(sub) \o "." \o domain :
                   sub \in { x \in found : NumParts(x) >= 3 },
                   pref \in Table(commonPrefixes) } : testSubdomain(options, c) }
  ELSE {}

StageCandidates(options, domain, found) ==
  BruteCandidates(options, domain)
  \cup PermutationCandidates(options, domain, found)
  \cup RecursiveCandidates(options, domain, found)

RECURSIVE SubsetsUpTo(_, _)
SubsetsUpTo(S, n) ==
  IF n = 0 THEN {{}}
  ELSE LET P == SubsetsUpTo(S, n - 1) IN P \cup { T \cup {x} : T \in P, x \in S }

(***************************************************************************)
(* Runner.EnumerateSingleDomainWithCtx                                     *)
(***************************************************************************)
\* InitWildcards is called with wildcard removal only; here it succeeds
WildcardsFound == wildcardInit = IF opt.RemoveWildcard THEN "ok" ELSE "none"

\* ... and here it may return an error, which is logged as a warning
WildcardsTried ==
  wildcardInit \in IF opt.RemoveWildcard THEN {"ok", "failed"} ELSE {"none"}

InitRun(options, data, budget) ==
  /\ opt \in options
  /\ srcData = [s \in Sources |-> data]
  /\ srcLeft = budget
  /\ srcClosed = [s \in Sources |-> FALSE]
  /\ srcResults = [s \in Sources |-> 0]
  /\ srcErrors = [s \in Sources |-> 0]
  /\ passiveResults = << >>
  /\ aggPc = "loop"
  /\ uniqueMap = EmptyMap
  /\ sourceMap = EmptyMap
  /\ skippedCounts = EmptyMap
  /\ Tasks = << >>
  /\ tasksClosed = FALSE
  /\ Results = << >>
  /\ resultsClosed = FALSE
  /\ foundResults = EmptyMap
  /\ mainPc = IF opt.RemoveWildcard THEN "results" ELSE "wait"
  /\ enhancedResults = {}
  /\ statistics = EmptyMap
  /\ output = {}
  /\ returned = [state |-> "running", map |-> EmptyMap]
  /\ emitted = {}
  /\ stageSent = {}
  /\ callbacks = EmptyMap
  /\ taskSends = EmptyMap
  /\ inserts = EmptyMap
  /\ poolAnswer = EmptyMap

\* ---- passive sources (Source.Run) and the agent's merged channel ----
srcVars == << srcData, srcLeft, srcClosed, srcResults, srcErrors >>

aggVars == << uniqueMap, sourceMap, skippedCounts >>

poolVars == << Tasks, tasksClosed, Results, resultsClosed >>

mainVars == << foundResults, mainPc, enhancedResults, statistics, output, returned >>

histVars == << callbacks, taskSends, inserts, poolAnswer >>

\* s.results++ ; results <- Result{Source, Subdomain, Value}
SourceEmit(s) ==
  /\ ~srcClosed[s]
  /\ srcLeft > 0
  /\ Len(passiveResults) < ChanCap
  /\ \E v \in srcData[s] :
       /\ passiveResults' =
            Append(passiveResults, [Source |-> s, Type |-> "Subdomain", Value |-> v])
       /\ emitted' = emitted \cup {<<s, v>>}
  /\ srcResults' = [srcResults EXCEPT ![s] = @ + 1]
  /\ srcLeft' = srcLeft - 1
  /\ UNCHANGED << notRun, opt, wildcardInit, srcData, srcClosed, srcErrors, aggPc, aggVars, poolVars,
                  mainVars, stageSent, histVars >>

\* s.errors++ ; results <- Result{Source, Error} ; return (the deferred close)
SourceError(s) ==
  /\ ~srcClosed[s]
  /\ srcLeft > 0
  /\ Len(passiveResults) < ChanCap
  /\ passiveResults' = Append(passiveResults, [Source |-> s, Type |-> "Error", Value |-> ""])
  /\ srcErrors' = [srcErrors EXCEPT ![s] = @ + 1]
  /\ srcClosed' = [srcClosed EXCEPT ![s] = TRUE]
  /\ srcLeft' = srcLeft - 1
  /\ UNCHANGED << notRun, opt, wildcardInit, srcData, srcResults, aggPc, aggVars, poolVars,
                  mainVars, emitted, stageSent, histVars >>

\* the deferred close(results) of Run
SourceClose(s) ==
  /\ ~srcClosed[s]
  /\ srcClosed' = [srcClosed EXCEPT ![s] = TRUE]
  /\ UNCHANGED << notRun, opt, wildcardInit, srcData, srcLeft, srcResults, srcErrors, passiveResults, aggPc,
                  aggVars, poolVars, mainVars, emitted, stageSent, histVars >>

\* the merged channel is closed once every source stream is closed
PassiveClosed == \A s \in Sources : srcClosed[s]

\* the two loops in the other order: a match regex is consulted before the
\* filter regexes, so a host matched by both would be let through
matchBeforeFilter(options, subdomain) ==
  IF /\ options.matchRegexes # NilSlice
     /\ \E ms \in options.matchRegexes :
          \E i \in 1..Len(ms) : MatchString(ms[i], subdomain)
  THEN TRUE
  ELSE /\ options.matchRegexes = NilSlice
       /\ ~\E fs \in options.filterRegexes :
            \E i \in 1..Len(fs) : MatchString(fs[i], subdomain)

\* ---- the aggregator goroutine ----
filterAndMatchSubdomain(options, subdomain) ==
  IF \E fs \in options.filterRegexes : \E i \in 1..Len(fs) : MatchString(fs[i], subdomain)
  THEN FALSE
  ELSE IF options.matchRegexes # NilSlice
       THEN \E ms \in options.matchRegexes : \E i \in 1..Len(ms) : MatchString(ms[i], subdomain)
       ELSE TRUE

\* no gate at all
ValidAnything(subdomain, domain) == TRUE

\* the gate of line 70, with the apex itself let through
ValidSubdomainOrApex(subdomain, domain) ==
  HasSuffix(subdomain, "." \o domain) \/ subdomain = domain

\* if !strings.HasSuffix(subdomain, "."+domain) { skip }
ValidSubdomain(subdomain, domain) == HasSuffix(subdomain, "." \o domain)

AggHead == Head(passiveResults)

\* replacer.Replace over the values a result can carry, computed once
Normalised ==
  [v \in NarrowValues \cup SeedValues \cup RediscoverValues \cup WideValues \cup {""} |->
     Replace(v)]

\* subdomain := replacer.Replace(result.Value)
AggSubdomain == Normalised[AggHead.Value]

AggReady(type) ==
  /\ aggPc = "loop"
  /\ passiveResults # << >>
  /\ AggHead.Type = type

\* case subscraping.Error: only a warning
AggError ==
  /\ AggReady("Error")
  /\ passiveResults' = Tail(passiveResults)
  /\ UNCHANGED << notRun, opt, wildcardInit, srcVars, aggPc, aggVars, poolVars, mainVars, emitted, stageSent,
                  histVars >>

\* the value is not under the apex: skippedCounts[result.Source]++
AggSkip ==
  /\ AggReady("Subdomain")
  /\ ~ValidSubdomain(AggSubdomain, Apex)
  /\ passiveResults' = Tail(passiveResults)
  /\ skippedCounts' = Incr(skippedCounts, AggHead.Source)
  /\ UNCHANGED << notRun, opt, wildcardInit, srcVars, aggPc, uniqueMap, sourceMap, poolVars, mainVars, emitted,
                  stageSent, histVars >>

\* filterAndMatchSubdomain says no: nothing is recorded
AggFiltered ==
  /\ AggReady("Subdomain")
  /\ ValidSubdomain(AggSubdomain, Apex)
  /\ ~filterAndMatchSubdomain(opt, AggSubdomain)
  /\ passiveResults' = Tail(passiveResults)
  /\ UNCHANGED << notRun, opt, wildcardInit, srcVars, aggPc, aggVars, poolVars, mainVars, emitted, stageSent,
                  histVars >>

\* an attribution that creates the host's source set and records no source
WithoutSource(subdomain, source) ==
  IF subdomain \in Keys(uniqueMap) THEN sourceMap ELSE Put(sourceMap, subdomain, {})

\* the source set of the host is made anew for every result
ResetSource(subdomain, source) == Put(sourceMap, subdomain, {source})

\* lines 76-85: the source set of the host, with the result's source added
WithSource(subdomain, source) ==
  LET base == IF subdomain \in Keys(uniqueMap) /\ subdomain \in Keys(sourceMap)
              THEN sourceMap[subdomain] ELSE {}
  IN Put(sourceMap, subdomain, base \cup {source})

\* a dedup gate that lets every result through as new
NeverDuplicate(subdomain) == FALSE

\* if _, ok := uniqueMap[subdomain]; ok { skip }
IsDuplicate(subdomain) == subdomain \in Keys(uniqueMap)

\* the host is already in uniqueMap: attribute and count as skipped
AggDuplicate ==
  /\ AggReady("Subdomain")
  /\ ValidSubdomain(AggSubdomain, Apex)
  /\ filterAndMatchSubdomain(opt, AggSubdomain)
  /\ IsDuplicate(AggSubdomain)
  /\ passiveResults' = Tail(passiveResults)
  /\ sourceMap' = WithSource(AggSubdomain, AggHead.Source)
  /\ skippedCounts' = Incr(skippedCounts, AggHead.Source)
  /\ UNCHANGED << notRun, opt, wildcardInit, srcVars, aggPc, uniqueMap, poolVars, mainVars, emitted, stageSent,
                  histVars >>

\* a new host: callback or resolver task, and the insertion into uniqueMap
\* the callback is invoked for every host put into uniqueMap
CallbackOnEveryAccept(options) == options.ResultCallback

\* r.options.ResultCallback != nil && !r.options.RemoveWildcard
CallbackOnAccept(options) == options.ResultCallback /\ ~options.RemoveWildcard

AggAccept ==
  /\ AggReady("Subdomain")
  /\ ValidSubdomain(AggSubdomain, Apex)
  /\ filterAndMatchSubdomain(opt, AggSubdomain)
  /\ ~IsDuplicate(AggSubdomain)
  /\ opt.RemoveWildcard => Len(Tasks) < PoolCap /\ ~tasksClosed
  /\ LET hostEntry == [Domain |-> Apex, Host |-> AggSubdomain, Source |-> AggHead.Source]
     IN /\ passiveResults' = Tail(passiveResults)
        /\ sourceMap' = WithSource(AggSubdomain, AggHead.Source)
        /\ uniqueMap' = Put(uniqueMap, AggSubdomain, hostEntry)
        /\ inserts' = Incr(inserts, AggSubdomain)
        /\ callbacks' = IF CallbackOnAccept(opt)
                        THEN Incr(callbacks, AggSubdomain) ELSE callbacks
        /\ Tasks' = IF opt.RemoveWildcard THEN Append(Tasks, hostEntry) ELSE Tasks
        /\ taskSends' = IF opt.RemoveWildcard THEN Incr(taskSends, AggSubdomain) ELSE taskSends
  /\ UNCHANGED << notRun, opt, wildcardInit, srcVars, aggPc, skippedCounts, tasksClosed, Results, resultsClosed,
                  mainVars, emitted, stageSent, poolAnswer >>

\* an aggregator that leaves the task channel open
LeaveTasksOpen(options, closed) == closed

\* if r.options.RemoveWildcard { close(resolutionPool.Tasks) }
CloseTasks(options, closed) == IF options.RemoveWildcard THEN TRUE ELSE closed

\* the range loop ends: close(resolutionPool.Tasks) if asked, wg.Done()
AggClose ==
  /\ aggPc = "loop"
  /\ passiveResults = << >>
  /\ PassiveClosed
  /\ aggPc' = "done"
  /\ tasksClosed' = CloseTasks(opt, tasksClosed)
  /\ UNCHANGED << notRun, opt, wildcardInit, srcVars, passiveResults, aggVars, Tasks, Results, resultsClosed,
                  mainVars, emitted, stageSent, histVars >>

\* ---- the resolver pool (resolve.ResolutionPool) ----
PoolOutcomes == {"resolved", "error", "wildcard"}

\* a worker takes a task, looks it up, and reports a Subdomain result, an
\* Error result, or nothing for a wildcard-induced host
PoolResolve ==
  /\ Tasks # << >>
  /\ Len(Results) < PoolCap
  /\ \E outcome \in PoolOutcomes :
       LET task == Head(Tasks)
       IN /\ Tasks' = Tail(Tasks)
          /\ poolAnswer' = Put(poolAnswer, task.Host, outcome)
          /\ Results' =
               CASE outcome = "resolved" ->
                      Append(Results, [Type |-> "Subdomain", Host |-> task.Host,
                                       Source |-> task.Source])
                 [] outcome = "error" ->
                      Append(Results, [Type |-> "Error", Host |-> task.Host,
                                       Source |-> task.Source])
                 [] OTHER -> Results
  /\ UNCHANGED << notRun, opt, wildcardInit, srcVars, passiveResults, aggPc, aggVars, tasksClosed, resultsClosed,
                  mainVars, emitted, stageSent, callbacks, taskSends, inserts >>

\* the workers have drained the closed task channel: close(Results)
PoolClose ==
  /\ tasksClosed
  /\ Tasks = << >>
  /\ ~resultsClosed
  /\ resultsClosed' = TRUE
  /\ UNCHANGED << notRun, opt, wildcardInit, srcVars, passiveResults, aggPc, aggVars, Tasks, tasksClosed, Results,
                  mainVars, emitted, stageSent, histVars >>

\* an Error result of the pool is put into the map like a Subdomain result
FoundAnyType(found, result) ==
  IF result.Host \notin Keys(found) THEN Put(found, result.Host, result) ELSE found

\* the switch on result.Type: a Subdomain result not yet in foundResults is
\* added, an Error result is logged
Found(found, result) ==
  IF result.Type = "Subdomain" /\ result.Host \notin Keys(found)
  THEN Put(found, result.Host, result)
  ELSE found

\* ---- the calling goroutine ----
\* for result := range resolutionPool.Results { ... }
MainRecvResult ==
  /\ mainPc = "results"
  /\ Results # << >>
  /\ LET result == Head(Results)
         fresh == result.Type = "Subdomain" /\ result.Host \notin Keys(foundResults)
     IN /\ Results' = Tail(Results)
        /\ foundResults' = Found(foundResults, result)
        /\ callbacks' = IF fresh /\ opt.ResultCallback THEN Incr(callbacks, result.Host)
                        ELSE callbacks
  /\ UNCHANGED << notRun, opt, wildcardInit, srcVars, passiveResults, aggPc, aggVars, Tasks, tasksClosed,
                  resultsClosed, mainPc, enhancedResults, statistics, output, returned,
                  emitted, stageSent, taskSends, inserts, poolAnswer >>

\* the range over Results ends when the pool has closed it
MainResultsClosed ==
  /\ mainPc = "results"
  /\ Results = << >>
  /\ resultsClosed
  /\ mainPc' = "wait"
  /\ UNCHANGED << notRun, opt, wildcardInit, srcVars, passiveResults, aggPc, aggVars, poolVars, foundResults,
                  enhancedResults, statistics, output, returned, emitted, stageSent,
                  histVars >>

EnhancedRequested(options) ==
  options.BruteForce \/ options.Permutations \/ options.Recursive

\* wg.Wait()
MainWait ==
  /\ mainPc = "wait"
  /\ aggPc = "done"
  /\ mainPc' = IF EnhancedRequested(opt) THEN "enhanced" ELSE "output"
  /\ UNCHANGED << notRun, opt, wildcardInit, srcVars, passiveResults, aggPc, aggVars, poolVars, foundResults,
                  enhancedResults, statistics, output, returned, emitted, stageSent,
                  histVars >>

\* EnhancedEnumerate: the stages report some of their candidates (a lookup
\* fails, the context is cancelled), and the collector goroutine races with
\* the final read of allResults; `kept` is what reaches the returned slice,
\* next to the passive seeds.
MainEnhancedEnumerate ==
  /\ mainPc = "enhanced"
  /\ LET seeds == Keys(uniqueMap)
     IN \E kept \in SubsetsUpTo(StageCandidates(opt, Apex, seeds), MaxFound) :
          /\ stageSent' = kept
          /\ enhancedResults' = seeds \cup kept
  /\ mainPc' = "add"
  /\ UNCHANGED << notRun, opt, wildcardInit, srcVars, passiveResults, aggPc, aggVars, poolVars, foundResults,
                  statistics, output, returned, emitted, histVars >>

\* ... or the runtime detects the concurrent map access and aborts
MainEnhancedCrash ==
  /\ mainPc = "enhanced"
  /\ StageCandidates(opt, Apex, Keys(uniqueMap)) # {}
  /\ mainPc' = "crashed"
  /\ UNCHANGED << notRun, opt, wildcardInit, srcVars, passiveResults, aggPc, aggVars, poolVars, foundResults,
                  enhancedResults, statistics, output, returned, emitted, stageSent,
                  histVars >>

\* the name the enhanced phase records as HostEntry.Source and in sourceMap
EnhancedSource == "enhanced"

\* the results the loop passes over: filtered out or already in uniqueMap
Skippable(results) ==
  { r \in results : ~filterAndMatchSubdomain(opt, r) \/ r \in Keys(uniqueMap) }

\* for _, result := range enhancedResults: an iteration that changes nothing
\* (the slice order is the map's; passing over a result has no effect, so the
\* model takes these iterations in one fixed order)
MainSkipEnhanced ==
  /\ mainPc = "add"
  /\ Skippable(enhancedResults) # {}
  /\ enhancedResults' =
       enhancedResults \ {CHOOSE r \in Skippable(enhancedResults) : TRUE}
  /\ UNCHANGED << notRun, opt, wildcardInit, srcVars, passiveResults, aggPc, aggVars, poolVars, foundResults,
                  mainPc, statistics, output, returned, emitted, stageSent, histVars >>

\* a new host of the enhanced phase; the send on Tasks panics when the
\* aggregator goroutine has closed the channel
MainAddEnhanced ==
  /\ mainPc = "add"
  /\ \E result \in enhancedResults :
       LET hostEntry == [Domain |-> Apex, Host |-> result, Source |-> EnhancedSource]
           sends == opt.RemoveWildcard
           panics == sends /\ tasksClosed
       IN /\ filterAndMatchSubdomain(opt, result)
          /\ result \notin Keys(uniqueMap)
          /\ sends /\ ~tasksClosed => Len(Tasks) < PoolCap
          /\ enhancedResults' = enhancedResults \ {result}
          /\ uniqueMap' = Put(uniqueMap, result, hostEntry)
          /\ inserts' = Incr(inserts, result)
          /\ sourceMap' = Put(sourceMap, result,
                              (IF result \in Keys(sourceMap) THEN sourceMap[result] ELSE {})
                                \cup {EnhancedSource})
          /\ Tasks' = IF sends /\ ~panics THEN Append(Tasks, hostEntry) ELSE Tasks
          /\ taskSends' = IF sends /\ ~panics THEN Incr(taskSends, result) ELSE taskSends
          /\ mainPc' = IF panics THEN "panic" ELSE mainPc
          /\ callbacks' = IF ~panics /\ CallbackOnAccept(opt)
                          THEN Incr(callbacks, result) ELSE callbacks
  /\ UNCHANGED << notRun, opt, wildcardInit, srcVars, passiveResults, aggPc, skippedCounts, tasksClosed, Results,
                  resultsClosed, foundResults, statistics, output, returned, emitted,
                  stageSent, poolAnswer >>

\* the loop over enhancedResults is over
MainEnhancedDone ==
  /\ mainPc = "add"
  /\ enhancedResults = {}
  /\ mainPc' = "output"
  /\ UNCHANGED << notRun, opt, wildcardInit, srcVars, passiveResults, aggPc, aggVars, poolVars, foundResults,
                  enhancedResults, statistics, output, returned, emitted, stageSent,
                  histVars >>

\* numberOfSubDomains counts foundResults with wildcard removal, uniqueMap without
FinalAccepted ==
  IF opt.RemoveWildcard THEN Keys(foundResults) ELSE Keys(uniqueMap)

\* the writers take the final set
MainWrite ==
  /\ mainPc = "output"
  /\ output' = FinalAccepted
  /\ mainPc' = "stats"
  /\ UNCHANGED << notRun, opt, wildcardInit, srcVars, passiveResults, aggPc, aggVars, poolVars, foundResults,
                  enhancedResults, statistics, returned, emitted, stageSent, histVars >>

\* a writer fails: return nil, err
MainWriteError ==
  /\ mainPc = "output"
  /\ returned' = [state |-> "error", map |-> EmptyMap]
  /\ mainPc' = "returned"
  /\ UNCHANGED << notRun, opt, wildcardInit, srcVars, passiveResults, aggPc, aggVars, poolVars, foundResults,
                  enhancedResults, statistics, output, emitted, stageSent, histVars >>

\* passiveAgent.GetStatistics(): every source's Statistics().Results
GetStatistics == [s \in Sources |-> srcResults[s]]

\* a post-pass that forgets the subtraction
PostPassNone(stats, skipped) == stats

\* the post-pass: stat.Results -= count for every source in skippedCounts
PostPass(stats, skipped) ==
  [s \in DOMAIN stats |-> IF s \in Keys(skipped) THEN stats[s] - skipped[s] ELSE stats[s]]

\* return nil, nil
ReturnNil == [state |-> "ok", map |-> EmptyMap]

\* return sourceMap, nil
ReturnValue == [state |-> "ok", map |-> sourceMap]

\* statistics if asked for, then return sourceMap, nil
MainReturn ==
  /\ mainPc = "stats"
  /\ statistics' = IF opt.Statistics THEN PostPass(GetStatistics, skippedCounts)
                   ELSE statistics
  /\ returned' = ReturnValue
  /\ mainPc' = "returned"
  /\ UNCHANGED << notRun, opt, wildcardInit, srcVars, passiveResults, aggPc, aggVars, poolVars, foundResults,
                  enhancedResults, output, emitted, stageSent, histVars >>

\* the passive phase, the resolver pool, the writers and the return
NextPassive ==
  \/ \E s \in Sources : SourceEmit(s)
  \/ \E s \in Sources : SourceError(s)
  \/ \E s \in Sources : SourceClose(s)
  \/ AggError
  \/ AggSkip
  \/ AggFiltered
  \/ AggDuplicate
  \/ AggAccept
  \/ AggClose
  \/ PoolResolve
  \/ PoolClose
  \/ MainRecvResult
  \/ MainResultsClosed
  \/ MainWait
  \/ MainWrite
  \/ MainWriteError
  \/ MainReturn

\* the enhanced phase
NextEnhanced ==
  \/ MainEnhancedEnumerate
  \/ MainEnhancedCrash
  \/ MainSkipEnhanced
  \/ MainAddEnhanced
  \/ MainEnhancedDone

NextRun == NextPassive \/ NextEnhanced

(***************************************************************************)
(* The normalisation applied to one value                                  *)
(***************************************************************************)
\* the pieces the inputs are built from: plain characters and the replacer's
\* old strings (or their parts)
NormTokens == { "a", ".", "/", "*", Bullet, "http:", "https:" }

RECURSIVE StringsUpTo(_)
StringsUpTo(n) ==
  IF n = 0 THEN {""}
  ELSE LET shorter == StringsUpTo(n - 1)
       IN shorter \cup { t \o x : t \in NormTokens, x \in shorter }

NormInputs == StringsUpTo(MaxTokens) \cup WideValues

\* subdomain := replacer.Replace(result.Value)
NormApply ==
  /\ normPc = "input"
  /\ normOnce' = Replace(normInput)
  /\ normPc' = "once"
  /\ UNCHANGED << normInput, normTwice, notNorm >>

\* the same replacement applied to its own result
NormReapply ==
  /\ normPc = "once"
  /\ normTwice' = Replace(normOnce)
  /\ normPc' = "twice"
  /\ UNCHANGED << normInput, normOnce, notNorm >>

NextNorm == NormApply \/ NormReapply

(***************************************************************************)
(* BruteForcer                                                             *)
(***************************************************************************)
IPs == { "1.2.3.4", "9.9.9.9" }

\* what a successful lookup can answer: a non-empty address list
Answers == { << "1.2.3.4" >>, << "9.9.9.9" >>, << "1.2.3.4", "9.9.9.9" >>,
             << "9.9.9.9", "1.2.3.4" >> }

\* b.wordlist
wordlist == Take(builtinWordlist, MaxWords)

Workers == 1..MaxThreads

\* the wildcard filter that lets every address through
FilterNothing(ips, wildcards) == ips

\* filteredIPs: the addresses that are not wildcard addresses, in order
FilterWildcards(ips, wildcards) ==
  LET Keep(ip) == ip \notin wildcards IN SelectSeq(ips, Keep)

\* a start loop that runs once more than b.threads
SpawnedOneMore(n) == { w \in Workers : w <= n + 1 }

\* for i := 0; i < b.threads; i++ { wg.Add(1); go func() {...}() }
Spawned(n) == 1..n

\* a worker without the select on ctx.Done()
SelectDefault(done, word) == [pc |-> "lookup", word |-> word]

\* select { case <-ctx.Done(): return; default: resolve(subdomain + "." + domain) }
Select(done, word) ==
  IF done THEN [pc |-> "exited", word |-> ""] ELSE [pc |-> "lookup", word |-> word]

\* DetectWildcards going on with the map it finds
KeepMap(old) == old

\* b.wildcardIPs = make(map[string]struct{})
MakeMap(old) == {}

\* DetectWildcards resets the map, then probes three random names; a probe
\* that resolves adds its addresses
DetectProbes == 3

BfProbe ==
  /\ bfPc = "detect"
  /\ bfProbes < DetectProbes
  /\ \E answer \in Answers \cup {<< >>} :
       /\ wildcardIPs' =
            (IF bfProbes = 0 THEN MakeMap(wildcardIPs) ELSE wildcardIPs) \cup Range(answer)
       /\ probed' = probed \cup Range(answer)
  /\ bfProbes' = bfProbes + 1
  /\ UNCHANGED << bfPc, bfCtxDone, bfNext, jobs, jobsClosed, worker, bfResults,
                  bfResultsClosed, bfDelivered, bfLookups, threads, notBrute >>

\* the workers are started
BfStartWorkers ==
  /\ bfPc = "detect"
  /\ bfProbes = DetectProbes
  /\ worker' = [w \in Workers |-> IF w \in Spawned(threads)
                                   THEN [pc |-> "idle", word |-> ""]
                                   ELSE worker[w]]
  /\ bfPc' = "send"
  /\ UNCHANGED << bfCtxDone, bfProbes, wildcardIPs, bfNext, jobs, jobsClosed, bfResults,
                  bfResultsClosed, bfDelivered, bfLookups, threads, probed, notBrute >>

\* case jobs <- word (the channel holds the whole wordlist)
BfSendJob ==
  /\ bfPc = "send"
  /\ bfNext <= Len(wordlist)
  /\ jobs' = Append(jobs, wordlist[bfNext])
  /\ bfNext' = bfNext + 1
  /\ UNCHANGED << bfPc, bfCtxDone, bfProbes, wildcardIPs, jobsClosed, worker, bfResults,
                  bfResultsClosed, bfDelivered, bfLookups, threads, probed, notBrute >>

\* case <-ctx.Done(): close(jobs), then wait
BfCancelSend ==
  /\ bfPc = "send"
  /\ bfNext <= Len(wordlist)
  /\ bfCtxDone
  /\ jobsClosed' = TRUE
  /\ bfPc' = "wait"
  /\ UNCHANGED << bfCtxDone, bfProbes, wildcardIPs, bfNext, jobs, worker, bfResults,
                  bfResultsClosed, bfDelivered, bfLookups, threads, probed, notBrute >>

\* every word is queued: close(jobs), then wait
BfCloseJobs ==
  /\ bfPc = "send"
  /\ bfNext > Len(wordlist)
  /\ jobsClosed' = TRUE
  /\ bfPc' = "wait"
  /\ UNCHANGED << bfCtxDone, bfProbes, wildcardIPs, bfNext, jobs, worker, bfResults,
                  bfResultsClosed, bfDelivered, bfLookups, threads, probed, notBrute >>

\* a worker receives a word; with ctx cancelled the select returns
WorkerTake(w) ==
  /\ bfPc \in {"send", "wait"}
  /\ worker[w].pc = "idle"
  /\ jobs # << >>
  /\ jobs' = Tail(jobs)
  /\ worker' = [worker EXCEPT ![w] = Select(bfCtxDone, Head(jobs))]
  /\ UNCHANGED << bfPc, bfCtxDone, bfProbes, wildcardIPs, bfNext, jobsClosed, bfResults,
                  bfResultsClosed, bfDelivered, bfLookups, threads, probed, notBrute >>

\* the lookup fails: continue
WorkerLookupFails(w) ==
  /\ worker[w].pc = "lookup"
  /\ worker' = [worker EXCEPT ![w] = [pc |-> "idle", word |-> ""]]
  /\ bfLookups' = bfLookups \cup
       {[name |-> worker[w].word \o "." \o Apex, answer |-> << >>, emitted |-> FALSE,
         by |-> w]}
  /\ UNCHANGED << bfPc, bfCtxDone, bfProbes, wildcardIPs, bfNext, jobs, jobsClosed,
                  bfResults, bfResultsClosed, bfDelivered, threads, probed, notBrute >>

\* the lookup succeeds: filter the wildcard addresses, emit what is left
WorkerLookup(w) ==
  /\ worker[w].pc = "lookup"
  /\ \E ips \in Answers :
       LET fullDomain == worker[w].word \o "." \o Apex
           filteredIPs == FilterWildcards(ips, wildcardIPs)
           emit == Len(filteredIPs) > 0
       IN /\ bfResults' = IF emit
                          THEN Append(bfResults, [Subdomain |-> fullDomain,
                                                  IPs |-> filteredIPs])
                          ELSE bfResults
          /\ bfLookups' = bfLookups \cup
               {[name |-> fullDomain, answer |-> ips, emitted |-> emit,
                 by |-> w]}
  /\ worker' = [worker EXCEPT ![w] = [pc |-> "idle", word |-> ""]]
  /\ UNCHANGED << bfPc, bfCtxDone, bfProbes, wildcardIPs, bfNext, jobs, jobsClosed,
                  bfResultsClosed, bfDelivered, threads, probed, notBrute >>

\* the range over jobs ends
WorkerExit(w) ==
  /\ bfPc \in {"send", "wait"}
  /\ worker[w].pc = "idle"
  /\ jobs = << >>
  /\ jobsClosed
  /\ worker' = [worker EXCEPT ![w] = [pc |-> "exited", word |-> ""]]
  /\ UNCHANGED << bfPc, bfCtxDone, bfProbes, wildcardIPs, bfNext, jobs, jobsClosed,
                  bfResults, bfResultsClosed, bfDelivered, bfLookups, threads, probed, notBrute >>

\* wg.Wait() returns; the deferred close(results)
BfClose ==
  /\ bfPc = "wait"
  /\ \A w \in Spawned(threads) : worker[w].pc = "exited"
  /\ bfResultsClosed' = TRUE
  /\ bfPc' = "done"
  /\ UNCHANGED << bfCtxDone, bfProbes, wildcardIPs, bfNext, jobs, jobsClosed, worker,
                  bfResults, bfDelivered, bfLookups, threads, probed, notBrute >>

\* runBruteForce: for result := range bruteResults { results <- result.Subdomain }
BfConsume ==
  /\ bfResults # << >>
  /\ bfResults' = Tail(bfResults)
  /\ bfDelivered' = bfDelivered \cup {Head(bfResults)}
  /\ UNCHANGED << bfPc, bfCtxDone, bfProbes, wildcardIPs, bfNext, jobs, jobsClosed, worker,
                  bfResultsClosed, bfLookups, threads, probed, notBrute >>

\* the run's context is cancelled
BfCancel ==
  /\ bfPc \in {"detect", "send", "wait"}
  /\ ~bfCtxDone
  /\ bfCtxDone' = TRUE
  /\ UNCHANGED << bfPc, bfProbes, wildcardIPs, bfNext, jobs, jobsClosed, worker, bfResults,
                  bfResultsClosed, bfDelivered, bfLookups, threads, probed, notBrute >>

NextBrute ==
  \/ BfProbe
  \/ BfStartWorkers
  \/ BfSendJob
  \/ BfCancelSend
  \/ BfCloseJobs
  \/ \E w \in Workers : WorkerTake(w)
  \/ \E w \in Workers : WorkerLookupFails(w)
  \/ \E w \in Workers : WorkerLookup(w)
  \/ \E w \in Workers : WorkerExit(w)
  \/ BfClose
  \/ BfConsume
  \/ BfCancel

(***************************************************************************)
(* cache.Cache                                                             *)
(***************************************************************************)
\* the (domain, source) pairs the callers use
CacheDomains == { "example.com" }

\* the result lists the callers store
CacheLists == { << >>, << "a.example.com", "b.example.com" >> }

\* generateCacheKey: the hex MD5 of "domain:source", taken as free of collisions
generateCacheKey(domain, source) == domain \o ":" \o source

CacheKeys == { generateCacheKey(d, src) : d \in CacheDomains, src \in Sources }

\* json.MarshalIndent(entry): the text of the object, in the pieces a reader
\* can see it grow by
Marshal(entry) ==
  << "{", entry.Domain, entry.Results, entry.Timestamp, entry.Source, "}" >>

\* json.Unmarshal succeeds on the whole text of an object only
UnmarshalOk(data) == Len(data) = 6 /\ data[6] = "}"

Unmarshal(data) ==
  [Domain |-> data[2], Results |-> data[3], Timestamp |-> data[4], Source |-> data[5]]

NoFile == [exists |-> FALSE, data |-> << >>]

\* an expiry test that also expires an entry whose age is the TTL
ExpiredAtTTL(entry, t, limit) == t - entry.Timestamp >= limit

\* time.Since(entry.Timestamp) > c.ttl
Expired(entry, t, limit) == t - entry.Timestamp > limit

Idle == [pc |-> "idle"]

\* a caller may start an operation
MayStart(other) == ~serial \/ other.pc = "idle"

\* the clock advances
Tick ==
  /\ now < MaxTime
  /\ now' = now + 1
  /\ UNCHANGED << ttl, serial, files, setter, getter, lastSet, sets, dir, notCache >>

\* Set: the entry is built with time.Now() and marshalled; ioutil.WriteFile
\* opens the file with O_TRUNC
SetOpen ==
  /\ setter.pc = "idle"
  /\ MayStart(getter)
  /\ dir
  /\ sets < MaxSets
  /\ sets' = sets + 1
  /\ \E d \in CacheDomains, src \in Sources, results \in CacheLists :
       LET cacheKey == generateCacheKey(d, src)
           entry == [Domain |-> d, Results |-> results, Timestamp |-> now, Source |-> src]
       IN /\ files' = [files EXCEPT ![cacheKey] = [exists |-> TRUE, data |-> << >>]]
          /\ setter' = [pc |-> "write", key |-> cacheKey, entry |-> entry]
          /\ getter' = IF getter.pc \in {"read", "check"} /\ getter.key = cacheKey
                       THEN [getter EXCEPT !.during = @ \cup {results}]
                       ELSE getter
  /\ UNCHANGED << now, ttl, serial, lastSet, dir, notCache >>

\* ... writes the data and closes the file: Set returns nil
SetWrite ==
  /\ setter.pc = "write"
  /\ files' = [files EXCEPT ![setter.key] = [exists |-> TRUE, data |-> Marshal(setter.entry)]]
  /\ lastSet' = [lastSet EXCEPT ![setter.key] = [set |-> TRUE, ok |-> TRUE,
                                                 entry |-> setter.entry]]
  /\ setter' = Idle
  /\ UNCHANGED << now, ttl, serial, getter, sets, dir, notCache >>

\* ... or the write fails: Set returns the error, the file stays truncated
SetWriteFails ==
  /\ setter.pc = "write"
  /\ lastSet' = [lastSet EXCEPT ![setter.key] = [set |-> TRUE, ok |-> FALSE,
                                                 entry |-> setter.entry]]
  /\ getter' = IF getter.pc \in {"read", "check"} /\ getter.key = setter.key
               THEN [getter EXCEPT !.clean = FALSE]
               ELSE getter
  /\ setter' = Idle
  /\ UNCHANGED << now, ttl, serial, files, sets, dir, notCache >>

\* Set with the directory gone: ioutil.WriteFile cannot create the file and
\* Set returns its error
SetNoDir ==
  /\ setter.pc = "idle"
  /\ MayStart(getter)
  /\ ~dir
  /\ sets < MaxSets
  /\ sets' = sets + 1
  /\ \E d \in CacheDomains, src \in Sources, results \in CacheLists :
       LET cacheKey == generateCacheKey(d, src)
           entry == [Domain |-> d, Results |-> results, Timestamp |-> now, Source |-> src]
       IN lastSet' = [lastSet EXCEPT ![cacheKey] = [set |-> TRUE, ok |-> FALSE,
                                                    entry |-> entry]]
  /\ UNCHANGED << now, ttl, serial, files, setter, getter, dir, notCache >>

NeverSet == [set |-> FALSE, ok |-> FALSE,
             entry |-> [Domain |-> "", Results |-> << >>, Timestamp |-> 0, Source |-> ""]]

\* Clear, called between two operations: os.RemoveAll(c.cacheDir) removes the
\* files and the directory; lastSet is from now on the latest Set since Clear
Clear ==
  /\ setter.pc = "idle"
  /\ getter.pc = "idle"
  /\ dir
  /\ files' = [k \in CacheKeys |-> NoFile]
  /\ dir' = FALSE
  /\ lastSet' = [k \in CacheKeys |-> NeverSet]
  /\ UNCHANGED << now, ttl, serial, setter, getter, sets, notCache >>

\* Get is about to return (results, hit); `at` is the time of its last look
Returning(g, hit, results) ==
  [pc |-> "ret", key |-> g.key, before |-> g.before, during |-> g.during,
   clean |-> g.clean, hit |-> hit, results |-> results, at |-> now]

\* Get: os.Stat says the file is not there: miss; otherwise go on to read it
GetStat ==
  /\ getter.pc = "idle"
  /\ MayStart(setter)
  /\ \E cacheKey \in CacheKeys :
       LET started == [pc |-> "read", key |-> cacheKey, entry |-> << >>,
                       before |-> lastSet[cacheKey],
                       during |-> IF setter.pc # "idle" /\ setter.key = cacheKey
                                  THEN {setter.entry.Results} ELSE {},
                       clean |-> ~lastSet[cacheKey].set \/ lastSet[cacheKey].ok]
       IN getter' = IF files[cacheKey].exists THEN started
                    ELSE Returning(started, FALSE, << >>)
  /\ UNCHANGED << now, ttl, serial, files, setter, lastSet, sets, dir, notCache >>

\* ioutil.ReadFile and json.Unmarshal: an error of either is a miss
GetRead ==
  /\ getter.pc = "read"
  /\ LET file == files[getter.key]
     IN getter' = IF file.exists /\ UnmarshalOk(file.data)
                  THEN [getter EXCEPT !.pc = "check", !.entry = Unmarshal(file.data)]
                  ELSE Returning(getter, FALSE, << >>)
  /\ UNCHANGED << now, ttl, serial, files, setter, lastSet, sets, dir, notCache >>

\* an expired entry: os.Remove(cachePath) and a miss; otherwise the hit
GetCheck ==
  /\ getter.pc = "check"
  /\ IF Expired(getter.entry, now, ttl)
     THEN /\ files' = [files EXCEPT ![getter.key] = NoFile]
          /\ getter' = Returning(getter, FALSE, << >>)
     ELSE /\ files' = files
          /\ getter' = Returning(getter, TRUE, getter.entry.Results)
  /\ UNCHANGED << now, ttl, serial, setter, lastSet, sets, dir, notCache >>

\* the caller has the answer
GetReturn ==
  /\ getter.pc = "ret"
  /\ getter' = Idle
  /\ UNCHANGED << now, ttl, serial, files, setter, lastSet, sets, dir, notCache >>

NextCache ==
  \/ Tick
  \/ SetOpen
  \/ SetWrite
  \/ SetWriteFails
  \/ SetNoDir
  \/ Clear
  \/ GetStat
  \/ GetRead
  \/ GetCheck
  \/ GetReturn

\* NewCache over an empty directory
CacheStart ==
  /\ now = 0
  /\ ttl \in 0..MaxTTL
  /\ serial \in BOOLEAN
  /\ files = [k \in CacheKeys |-> NoFile]
  /\ setter = Idle
  /\ getter = Idle
  /\ lastSet = [k \in CacheKeys |-> NeverSet]
  /\ sets = 0
  /\ dir = TRUE

\* no cache is in use
CacheIdle ==
  /\ now = 0
  /\ ttl = 0
  /\ serial = TRUE
  /\ files = [k \in CacheKeys |-> NoFile]
  /\ setter = Idle
  /\ getter = Idle
  /\ lastSet = [k \in CacheKeys |-> NeverSet]
  /\ sets = 0
  /\ dir = TRUE

(***************************************************************************)
(* sources/wayback, sources/urlscan: Source.Run                            *)
(***************************************************************************)

SourceNames == {"wayback", "urlscan"}

\* the hosts a provider's answer may name
ResponseHosts == {"a.example.com", "b.example.com", "example.com", "a.other.com"}

\* the hosts Run keeps from a decoded answer: wayback keeps the hosts under
\* the domain and the domain itself, urlscan the hosts under the domain
Extract(name, response, domain) ==
  { h \in response :
      \/ HasSuffix(h, "." \o domain)
      \/ name = "wayback" /\ h = domain }

ErrorResult(name, after) ==
  [Source |-> name, Type |-> "Error", Value |-> "", afterCancel |-> after]

SubdomainResult(name, value, after) ==
  [Source |-> name, Type |-> "Subdomain", Value |-> value, afterCancel |-> after]

NoResult == [Source |-> "", Type |-> "", Value |-> "", afterCancel |-> FALSE]

\* the deferred function never runs
DeferSkipped(n) == n

\* the deferred function of the goroutine: close(results)
Deferred(n) == n + 1

\* s.errors++; results <- Result{Type: Error}: the goroutine stands in the send
FailWith ==
  /\ counters' = [counters EXCEPT !.errors = @ + 1]
  /\ outgoing' = ErrorResult(srcName, ctxErr)
  /\ goPc' = "sendError"
  /\ UNCHANGED << srcName, ctxErr, consumer, subdomains, stream, closes, notGo >>

\* session.SimpleGet returns an error; it does whenever ctx is cancelled
SimpleGetError ==
  /\ goPc = "get"
  /\ FailWith

\* session.SimpleGet returns a response
SimpleGetResponse ==
  /\ goPc = "get"
  /\ ~ctxErr
  /\ goPc' = "status"
  /\ UNCHANGED << srcName, ctxErr, consumer, subdomains, outgoing, stream, closes,
                  counters, notGo >>

\* resp.StatusCode != http.StatusOK
BadStatus ==
  /\ goPc = "status"
  /\ FailWith

StatusOK ==
  /\ goPc = "status"
  /\ goPc' = "decode"
  /\ UNCHANGED << srcName, ctxErr, consumer, subdomains, outgoing, stream, closes,
                  counters, notGo >>

\* json.NewDecoder(resp.Body).Decode fails
DecodeError ==
  /\ goPc = "decode"
  /\ FailWith

\* the answer decodes; the hosts it names are filtered into the map
Decoded ==
  /\ goPc = "decode"
  /\ \E response \in SUBSET ResponseHosts :
       subdomains' = Extract(srcName, response, Apex)
  /\ goPc' = "range"
  /\ UNCHANGED << srcName, ctxErr, consumer, outgoing, stream, closes, counters,
                  notGo >>

\* one iteration of the range over the map, in any order: s.results++ and
\* the send of the Subdomain result begins
RangeNext ==
  /\ goPc = "range"
  /\ \E h \in subdomains :
       /\ subdomains' = subdomains \ {h}
       /\ outgoing' = SubdomainResult(srcName, h, ctxErr)
  /\ counters' = [counters EXCEPT !.results = @ + 1]
  /\ goPc' = "sendSubdomain"
  /\ UNCHANGED << srcName, ctxErr, consumer, stream, closes, notGo >>

\* the stream is unbuffered: a send completes when the consumer receives
SendCompletes ==
  /\ goPc \in {"sendError", "sendSubdomain"}
  /\ consumer
  /\ stream' = Append(stream, outgoing)
  /\ outgoing' = NoResult
  /\ goPc' = IF goPc = "sendError" THEN "return" ELSE "range"
  /\ UNCHANGED << srcName, ctxErr, consumer, subdomains, closes, counters, notGo >>

\* the goroutine returns, after an Error or at the end of the range, and its
\* deferred function runs
GoReturn ==
  /\ \/ goPc = "return"
     \/ goPc = "range" /\ subdomains = {}
  /\ closes' = Deferred(closes)
  /\ goPc' = "exited"
  /\ UNCHANGED << srcName, ctxErr, consumer, subdomains, outgoing, stream,
                  counters, notGo >>

\* the steps of the goroutine of Run
GoStep ==
  \/ SimpleGetError
  \/ SimpleGetResponse
  \/ BadStatus
  \/ StatusOK
  \/ DecodeError
  \/ Decoded
  \/ RangeNext
  \/ SendCompletes
  \/ GoReturn

\* the caller cancels ctx
CtxCancel ==
  /\ ~ctxErr
  /\ ctxErr' = TRUE
  /\ UNCHANGED << srcName, consumer, goPc, subdomains, outgoing, stream, closes,
                  counters, notGo >>

\* the caller stops receiving from the stream
ConsumerStops ==
  /\ consumer
  /\ consumer' = FALSE
  /\ UNCHANGED << srcName, ctxErr, goPc, subdomains, outgoing, stream, closes,
                  counters, notGo >>

NextGo ==
  \/ GoStep
  \/ CtxCancel
  \/ ConsumerStops

\* Run has reset the counters, made the stream and started its goroutine
GoStart ==
  /\ srcName \in SourceNames
  /\ ctxErr = FALSE
  /\ consumer = TRUE
  /\ goPc = "get"
  /\ subdomains = {}
  /\ outgoing = NoResult
  /\ stream = << >>
  /\ closes = 0
  /\ counters = [errors |-> 0, results |-> 0]

\* no source is run on its own
GoIdle ==
  /\ srcName = ""
  /\ ctxErr = FALSE
  /\ consumer = TRUE
  /\ goPc = "idle"
  /\ subdomains = {}
  /\ outgoing = NoResult
  /\ stream = << >>
  /\ closes = 0
  /\ counters = [errors |-> 0, results |-> 0]

(***************************************************************************)
(* passive.New: the selection of the sources                               *)
(***************************************************************************)

MaxNames == 2

UpperCase == "ABCDEFGHIJKLMNOPQRSTUVWXYZ"

LowerCase == "abcdefghijklmnopqrstuvwxyz"

\* strings.ToLower over ASCII
RECURSIVE ToLower(_)
ToLower(s) ==
  IF s = "" THEN ""
  ELSE LET c == SubSeq(s, 1, 1)
           l == IF \E i \in 1..26 : SubSeq(UpperCase, i, i) = c
                THEN LET i == CHOOSE i \in 1..26 : SubSeq(UpperCase, i, i) = c
                     IN SubSeq(LowerCase, i, i)
                ELSE c
       IN l \o ToLower(SubSeq(s, 2, Len(s)))

\* the sources of the registry this model keeps: wayback and urlscan, both
\* default and without recursive support, and crtsh, whose methods may return
\* either value
Registries ==
  { << [Name |-> "crtsh", IsDefault |-> d, HasRecursiveSupport |-> r],
       [Name |-> "urlscan", IsDefault |-> TRUE, HasRecursiveSupport |-> FALSE],
       [Name |-> "wayback", IsDefault |-> TRUE, HasRecursiveSupport |-> FALSE] >> :
      d \in BOOLEAN, r \in BOOLEAN }

\* the names a user may give: the sources', an unknown one, and one that
\* differs from a source's in case
GivenNames == {"crtsh", "urlscan", "wayback", "nosuch", "Wayback"}

NameLists == UNION { [1..n -> GivenNames] : n \in 0..MaxNames }

\* init(): NameSourceMap[strings.ToLower(Name())] = source
NameSourceMap(all) ==
  LET names == { ToLower(all[i].Name) : i \in 1..Len(all) }
  IN [ n \in names |->
         all[CHOOSE i \in 1..Len(all) :
               /\ ToLower(all[i].Name) = n
               /\ \A j \in (i + 1)..Len(all) : ToLower(all[j].Name) # n] ]

\* NameSourceMap, built once at start-up, for each registry of the model
NameSourceMaps == [ all \in Registries |-> NameSourceMap(all) ]

\* the loop over sourceNames: a known name is put into the map
RECURSIVE IncludeNamed(_, _, _)
IncludeNamed(sources, byName, sourceNames) ==
  IF sourceNames = << >> THEN sources
  ELSE LET source == Head(sourceNames)
           next == IF source \in DOMAIN byName
                   THEN Put(sources, source, byName[source])
                   ELSE sources
       IN IncludeNamed(next, byName, Tail(sourceNames))

\* the names the loop over sourceNames warns about
Warned(byName, sourceNames) ==
  { sourceNames[i] : i \in { j \in 1..Len(sourceNames) : sourceNames[j] \notin DOMAIN byName } }

\* the loop over AllSources: a default source is put under its Name()
RECURSIVE IncludeDefault(_, _)
IncludeDefault(sources, all) ==
  IF all = << >> THEN sources
  ELSE LET currentSource == Head(all)
           next == IF currentSource.IsDefault
                   THEN Put(sources, currentSource.Name, currentSource)
                   ELSE sources
       IN IncludeDefault(next, Tail(all))

\* nothing is deleted
ExcludeNothing(sources, excludedSourceNames) == sources

\* delete(sources, sourceName) for every excluded name
Exclude(sources, excludedSourceNames) ==
  [ k \in DOMAIN sources \ Range(excludedSourceNames) |-> sources[k] ]

\* the sources without recursive support are deleted
RecursiveOnly(sources) ==
  [ k \in { n \in DOMAIN sources : sources[n].HasRecursiveSupport } |-> sources[k] ]

\* the map sources when New reaches the check of its length
Selected(all, args) ==
  LET byName == NameSourceMaps[all]
      start == IF args.useAllSources THEN byName
               ELSE IF Len(args.sourceNames) > 0
                    THEN IncludeNamed(EmptyMap, byName, args.sourceNames)
                    ELSE IncludeDefault(EmptyMap, all)
      kept == IF Len(args.excludedSourceNames) > 0
              THEN Exclude(start, args.excludedSourceNames)
              ELSE start
  IN IF args.useSourcesSupportingRecurse THEN RecursiveOnly(kept) ELSE kept

\* New never exits
FatalNever(sources) == FALSE

\* gologger.Fatal: the message is logged and the process exits
Fatal(sources) == Cardinality(DOMAIN sources) = 0

\* maps.Values: the values of the map, in any order
ValuesOf(sources) ==
  { q \in [1..Cardinality(DOMAIN sources) -> DOMAIN sources] :
      \A k \in DOMAIN sources : \E i \in DOMAIN q : q[i] = k }

\* New, from its call to its return or to the exit of the process
New ==
  /\ selPc = "call"
  /\ LET sources == Selected(registry, selArgs)
     IN /\ selSources' = sources
        /\ warnings' = IF ~selArgs.useAllSources
                        THEN Warned(NameSourceMaps[registry], selArgs.sourceNames)
                        ELSE {}
        /\ IF Fatal(sources)
           THEN /\ selPc' = "exit"
                /\ agent' = << >>
           ELSE /\ selPc' = "returned"
                /\ \E q \in ValuesOf(sources) :
                     agent' = [ i \in DOMAIN q |-> sources[q[i]] ]
  /\ UNCHANGED << registry, selArgs, notSel >>

NextSel == New

SelStart ==
  /\ registry \in Registries
  /\ selArgs \in [sourceNames : NameLists, excludedSourceNames : NameLists,
                   useAllSources : BOOLEAN, useSourcesSupportingRecurse : BOOLEAN]
  /\ selPc = "call"
  /\ selSources = EmptyMap
  /\ warnings = {}
  /\ agent = << >>

\* New is not called
SelIdle ==
  /\ registry = << >>
  /\ selArgs = [sourceNames |-> << >>, excludedSourceNames |-> << >>,
                useAllSources |-> FALSE, useSourcesSupportingRecurse |-> FALSE]
  /\ selPc = "idle"
  /\ selSources = EmptyMap
  /\ warnings = {}
  /\ agent = << >>

(***************************************************************************)
(* EnumerateSingleDomainWithCtx: the deadline and the contexts             *)
(***************************************************************************)

MaxClock == 2

MaxCandidates == 2

MaxRunning == 2

\* EnumerateSubdomainsWithCtx is given MaxEnumerationTime as a duration: the
\* deadline of the passive enumeration has fired
DeadlineFired == elapsed >= maxTime

\* the context the passive sources run under: ctx bounded by the deadline
PassiveCtxDone == callerCtx = "cancelled" \/ DeadlineFired

\* the context EnhancedEnumerate is given: ctx, the argument of the call
StageCtxDone == callerCtx = "cancelled"

\* a minute passes
ClockTick ==
  /\ phase \in {"passive", "enhanced"}
  /\ elapsed < MaxClock
  /\ elapsed' = elapsed + 1
  /\ UNCHANGED << maxTime, callerCtx, phase, running, candidates, lookups,
                  lateLookups, notDl >>

\* the caller cancels ctx
CallerCancels ==
  /\ phase \in {"passive", "enhanced"}
  /\ callerCtx = "live"
  /\ callerCtx' = "cancelled"
  /\ UNCHANGED << elapsed, maxTime, phase, running, candidates, lookups,
                  lateLookups, notDl >>

\* a passive source closes its stream, its work done
PassiveSourceEnds ==
  /\ phase = "passive"
  /\ running > 0
  /\ ~PassiveCtxDone
  /\ running' = running - 1
  /\ UNCHANGED << elapsed, maxTime, callerCtx, phase, candidates, lookups,
                  lateLookups, notDl >>

\* the passive sources are cancelled and the merged channel is closed
PassiveCancelled ==
  /\ phase = "passive"
  /\ running > 0
  /\ PassiveCtxDone
  /\ running' = 0
  /\ UNCHANGED << elapsed, maxTime, callerCtx, phase, candidates, lookups,
                  lateLookups, notDl >>

\* wg.Wait() returns and EnhancedEnumerate(ctx, domain, passiveResults) is called
EnhancedCalled ==
  /\ phase = "passive"
  /\ running = 0
  /\ phase' = "enhanced"
  /\ UNCHANGED << elapsed, maxTime, callerCtx, running, candidates, lookups,
                  lateLookups, notDl >>

\* the loop over the candidates: select on ctx.Done(), default: the test of
\* the next candidate is started
StageTest ==
  /\ phase = "enhanced"
  /\ candidates > 0
  /\ ~StageCtxDone
  /\ candidates' = candidates - 1
  /\ lookups' = lookups + 1
  /\ lateLookups' = IF DeadlineFired THEN lateLookups + 1 ELSE lateLookups
  /\ UNCHANGED << elapsed, maxTime, callerCtx, phase, running, notDl >>

\* case <-ctx.Done(): return
StageCancelled ==
  /\ phase = "enhanced"
  /\ candidates > 0
  /\ StageCtxDone
  /\ phase' = "done"
  /\ UNCHANGED << elapsed, maxTime, callerCtx, running, candidates, lookups,
                  lateLookups, notDl >>

\* the loop is over
StageEnds ==
  /\ phase = "enhanced"
  /\ candidates = 0
  /\ phase' = "done"
  /\ UNCHANGED << elapsed, maxTime, callerCtx, running, candidates, lookups,
                  lateLookups, notDl >>

NextDl ==
  \/ ClockTick
  \/ CallerCancels
  \/ PassiveSourceEnds
  \/ PassiveCancelled
  \/ EnhancedCalled
  \/ StageTest
  \/ StageCancelled
  \/ StageEnds

\* the call of the passive agent, an active stage switched on
DlStart ==
  /\ elapsed = 0
  /\ maxTime \in 1..MaxClock
  /\ callerCtx = "live"
  /\ phase = "passive"
  /\ running \in 0..MaxRunning
  /\ candidates \in 0..MaxCandidates
  /\ lookups = 0
  /\ lateLookups = 0

DlIdle ==
  /\ elapsed = 0
  /\ maxTime = 0
  /\ callerCtx = "live"
  /\ phase = "idle"
  /\ running = 0
  /\ candidates = 0
  /\ lookups = 0
  /\ lateLookups = 0

(***************************************************************************)
(* EnhancedEnumerate: the stage's workers, the shared channel, the         *)
(* collector                                                               *)
(***************************************************************************)
\* the passive results a call may be given
EeHosts == { "a.example.com", "a.b.example.com", "b.example.com" }

\* a depth test that never stops the stage
DepthNeverReached(depth, maxDepth) == FALSE

\* if depth >= e.options.MaxDepth { return }
DepthReached(depth, maxDepth) == depth >= maxDepth

\* secondLevelDomains: parts[0] + "." + domain for the hosts of three parts or more
SecondLevelDomains(foundSubdomains, domain) ==
  { FirstLabel(x) \o "." \o domain : x \in { y \in foundSubdomains : NumParts(y) >= 3 } }

\* the test domains of the recursive stage: pref + "." + sub
RecursiveTests(foundSubdomains, domain) ==
  { pref \o "." \o sub :
      sub \in SecondLevelDomains(foundSubdomains, domain),
      pref \in Table(commonPrefixes) }

\* the passive results of the calls with the permutation stage, and the
\* permutations the runs follow: the dashed forms of the common words
EePermSeeds == { "a.example.com" }

EePermutations ==
  { c \in GeneratePermutations(permGen, EePermSeeds, Apex) :
      Contains(c, "-") /\ c \in addWordPermutations(permGen, "a", Apex) }

\* the calls a run follows: the stage, its options, the passive results and,
\* of the permutation stage, at most MaxCandidates of the permutations
EeCalls ==
  { [stage |-> "recursive", MaxDepth |-> md, resolver |-> res, threads |-> n,
     seeds |-> found, candidates |-> RecursiveTests(found, Apex)] :
      md \in {0, 3}, res \in BOOLEAN, n \in 1..MaxThreads,
      found \in SubsetsUpTo(EeHosts, MaxSeed) }
  \cup
  { [stage |-> "permutations", MaxDepth |-> 3, resolver |-> res, threads |-> n,
     seeds |-> EePermSeeds, candidates |-> cs] :
      res \in BOOLEAN, n \in 1..MaxThreads,
      cs \in SubsetsUpTo(EePermutations, MaxCandidates) }

EeCandidates == UNION { c.candidates : c \in EeCalls }

\* the process has not died of a panic or a fatal error of the runtime
EeAlive == eePc # "fatal" /\ \A c \in EeCandidates : eeWorker[c] # "panic"

\* the stage's goroutine starts: runRecursiveEnumeration returns at once when
\* the depth is reached
StageBegin ==
  /\ EeAlive
  /\ eeStagePc = "start"
  /\ IF eeArgs.stage = "recursive" /\ DepthReached(0, eeArgs.MaxDepth)
     THEN eeStagePc' = "returned" /\ eeTodo' = {}
     ELSE eeStagePc' = "loop" /\ eeTodo' = eeArgs.candidates
  /\ UNCHANGED << eeArgs, eeCtxDone, eeWorker, eeTests, resultsChan, resultsChanClosed,
                  eeSent, allResults, collector, eePc, eeSeen, eeRace, notEe >>

\* select { case <-ctx.Done(): return; default: }: the stage returns, its
\* workers left to themselves
StageCtxReturn ==
  /\ EeAlive
  /\ eeStagePc = "loop"
  /\ eeTodo # {}
  /\ eeCtxDone
  /\ eeStagePc' = "returned"
  /\ UNCHANGED << eeArgs, eeCtxDone, eeTodo, eeWorker, eeTests, resultsChan,
                  resultsChanClosed, eeSent, allResults, collector, eePc, eeSeen, eeRace,
                  notEe >>

\* wg.Add(1); go func(...) {...}(...)
StageSpawn ==
  /\ EeAlive
  /\ eeStagePc = "loop"
  /\ ~eeCtxDone
  /\ \E c \in eeTodo :
       /\ eeTodo' = eeTodo \ {c}
       /\ eeWorker' = [eeWorker EXCEPT ![c] = "sem"]
  /\ UNCHANGED << eeArgs, eeCtxDone, eeStagePc, eeTests, resultsChan, resultsChanClosed,
                  eeSent, allResults, collector, eePc, eeSeen, eeRace, notEe >>

\* wg.Wait() returns and the stage with it
StageWaited ==
  /\ EeAlive
  /\ eeStagePc = "loop"
  /\ eeTodo = {}
  /\ \A c \in EeCandidates : eeWorker[c] \in {"unborn", "done"}
  /\ eeStagePc' = "returned"
  /\ UNCHANGED << eeArgs, eeCtxDone, eeTodo, eeWorker, eeTests, resultsChan,
                  resultsChanClosed, eeSent, allResults, collector, eePc, eeSeen, eeRace,
                  notEe >>

\* semaphore <- struct{}{}: the channel holds e.options.BruteThreads tokens
SemAcquire(c) ==
  /\ EeAlive
  /\ eeWorker[c] = "sem"
  /\ Cardinality({ d \in EeCandidates : eeWorker[d] \in {"test", "send"} }) < eeArgs.threads
  /\ eeWorker' = [eeWorker EXCEPT ![c] = "test"]
  /\ UNCHANGED << eeArgs, eeCtxDone, eeStagePc, eeTodo, eeTests, resultsChan,
                  resultsChanClosed, eeSent, allResults, collector, eePc, eeSeen, eeRace,
                  notEe >>

\* e.testSubdomain(testDomain): true exactly with a resolver; false ends the worker
TestSubdomain(c) ==
  /\ EeAlive
  /\ eeWorker[c] = "test"
  /\ eeTests' = eeTests (+) SetToBag({c})
  /\ eeWorker' = [eeWorker EXCEPT ![c] = IF eeArgs.resolver THEN "send" ELSE "done"]
  /\ UNCHANGED << eeArgs, eeCtxDone, eeStagePc, eeTodo, resultsChan, resultsChanClosed,
                  eeSent, allResults, collector, eePc, eeSeen, eeRace, notEe >>

\* results <- testDomain; a send on a closed channel panics
WorkerSend(c) ==
  /\ EeAlive
  /\ eeWorker[c] = "send"
  /\ IF resultsChanClosed
     THEN /\ eeWorker' = [eeWorker EXCEPT ![c] = "panic"]
          /\ UNCHANGED << resultsChan, eeSent >>
     ELSE /\ eeWorker' = [eeWorker EXCEPT ![c] = "done"]
          /\ resultsChan' = Append(resultsChan, c)
          /\ eeSent' = eeSent \cup {c}
  /\ UNCHANGED << eeArgs, eeCtxDone, eeStagePc, eeTodo, eeTests, resultsChanClosed,
                  allResults, collector, eePc, eeSeen, eeRace, notEe >>

\* for result := range resultsChan
CollectorRecv ==
  /\ EeAlive
  /\ collector.pc = "range"
  /\ resultsChan # << >>
  /\ collector' = [pc |-> "write", result |-> Head(resultsChan)]
  /\ resultsChan' = Tail(resultsChan)
  /\ UNCHANGED << eeArgs, eeCtxDone, eeStagePc, eeTodo, eeWorker, eeTests,
                  resultsChanClosed, eeSent, allResults, eePc, eeSeen, eeRace, notEe >>

\* allResults[result] = struct{}{}; when EnhancedEnumerate ranges over the map at
\* the same time, the range may or may not come by the new key, or the runtime
\* ends the process ("concurrent map iteration and map write")
CollectorWrite ==
  /\ EeAlive
  /\ collector.pc = "write"
  /\ allResults' = allResults \cup {collector.result}
  /\ collector' = [pc |-> "range", result |-> ""]
  /\ IF eePc = "ranging"
     THEN /\ eeRace' = TRUE
          /\ \/ eeSeen' = eeSeen /\ eePc' = eePc
             \/ eeSeen' = eeSeen \cup {collector.result} /\ eePc' = eePc
             \/ eeSeen' = eeSeen /\ eePc' = "fatal"
     ELSE UNCHANGED << eeRace, eeSeen, eePc >>
  /\ UNCHANGED << eeArgs, eeCtxDone, eeStagePc, eeTodo, eeWorker, eeTests, resultsChan,
                  resultsChanClosed, eeSent, notEe >>

\* the channel is closed and empty: the range ends
CollectorExit ==
  /\ EeAlive
  /\ collector.pc = "range"
  /\ resultsChan = << >>
  /\ resultsChanClosed
  /\ collector' = [pc |-> "exited", result |-> ""]
  /\ UNCHANGED << eeArgs, eeCtxDone, eeStagePc, eeTodo, eeWorker, eeTests, resultsChan,
                  resultsChanClosed, eeSent, allResults, eePc, eeSeen, eeRace, notEe >>

\* wg.Wait() returns; close(resultsChan)
EeClose ==
  /\ EeAlive
  /\ eePc = "wait"
  /\ eeStagePc = "returned"
  /\ resultsChanClosed' = TRUE
  /\ eePc' = "closed"
  /\ UNCHANGED << eeArgs, eeCtxDone, eeStagePc, eeTodo, eeWorker, eeTests, resultsChan,
                  eeSent, allResults, collector, eeSeen, eeRace, notEe >>

\* for result := range allResults: the range begins with the keys of the map
EeRange ==
  /\ EeAlive
  /\ eePc = "closed"
  /\ eeSeen' = allResults
  /\ eePc' = "ranging"
  /\ UNCHANGED << eeArgs, eeCtxDone, eeStagePc, eeTodo, eeWorker, eeTests, resultsChan,
                  resultsChanClosed, eeSent, allResults, collector, eeRace, notEe >>

\* return results
EeReturn ==
  /\ EeAlive
  /\ eePc = "ranging"
  /\ eePc' = "returned"
  /\ UNCHANGED << eeArgs, eeCtxDone, eeStagePc, eeTodo, eeWorker, eeTests, resultsChan,
                  resultsChanClosed, eeSent, allResults, collector, eeSeen, eeRace, notEe >>

\* the caller's context is cancelled
EeCancel ==
  /\ EeAlive
  /\ eePc = "wait"
  /\ ~eeCtxDone
  /\ eeCtxDone' = TRUE
  /\ UNCHANGED << eeArgs, eeStagePc, eeTodo, eeWorker, eeTests, resultsChan,
                  resultsChanClosed, eeSent, allResults, collector, eePc, eeSeen, eeRace,
                  notEe >>

NextEe ==
  \/ StageBegin
  \/ StageCtxReturn
  \/ StageSpawn
  \/ StageWaited
  \/ \E c \in EeCandidates : SemAcquire(c)
  \/ \E c \in EeCandidates : TestSubdomain(c)
  \/ \E c \in EeCandidates : WorkerSend(c)
  \/ CollectorRecv
  \/ CollectorWrite
  \/ CollectorExit
  \/ EeClose
  \/ EeRange
  \/ EeReturn
  \/ EeCancel

\* allResults holds the passive results, the collector and the stage are started
EeStart ==
  /\ eeArgs \in EeCalls
  /\ eeCtxDone = FALSE
  /\ eeStagePc = "start"
  /\ eeTodo = {}
  /\ eeWorker = [c \in EeCandidates |-> "unborn"]
  /\ eeTests = EmptyBag
  /\ resultsChan = << >>
  /\ resultsChanClosed = FALSE
  /\ eeSent = {}
  /\ allResults = eeArgs.seeds
  /\ collector = [pc |-> "range", result |-> ""]
  /\ eePc = "wait"
  /\ eeSeen = {}
  /\ eeRace = FALSE

EeIdle ==
  /\ eeArgs = [stage |-> "", MaxDepth |-> 0, resolver |-> FALSE, threads |-> 1,
               seeds |-> {}, candidates |-> {}]
  /\ eeCtxDone = FALSE
  /\ eeStagePc = "idle"
  /\ eeTodo = {}
  /\ eeWorker = [c \in EeCandidates |-> "unborn"]
  /\ eeTests = EmptyBag
  /\ resultsChan = << >>
  /\ resultsChanClosed = FALSE
  /\ eeSent = {}
  /\ allResults = {}
  /\ collector = [pc |-> "idle", result |-> ""]
  /\ eePc = "idle"
  /\ eeSeen = {}
  /\ eeRace = FALSE

(***************************************************************************)
(* Generator.GeneratePermutations on its own                               *)
(***************************************************************************)
\* the hosts a caller may pass
PermHosts ==
  { "api.example.com", "b.api.example.com", "example.com", "api.other.com",
    "dev.example.com" }

PermDomains == { "example.com", "api.example.com" }

\* entries of foundSubdomains
MaxHosts == 3

\* e.permGen.GeneratePermutations(foundSubdomains, baseDomain) returns
PermCall ==
  /\ permPc = "call"
  /\ permResult' = Slice(GeneratePermutations(NewGenerator, Range(permFound), permDomain))
  /\ permPc' = "returned"
  /\ UNCHANGED << permFound, permDomain, notPerm >>

\* the caller is done with the slice
PermDrop ==
  /\ permPc = "returned"
  /\ permPc' = "dropped"
  /\ UNCHANGED << permFound, permDomain, permResult, notPerm >>

NextPerm == PermCall \/ PermDrop

PermStart ==
  /\ permFound \in UNION { [1..n -> PermHosts] : n \in 0..MaxHosts }
  /\ permDomain \in PermDomains
  /\ permResult = EmptyBag
  /\ permPc = "call"

PermIdle ==
  /\ permFound = << >>
  /\ permDomain = ""
  /\ permResult = EmptyBag
  /\ permPc = "idle"

(***************************************************************************)
(* optimizer.WorkerPool                                                    *)
(***************************************************************************)
\* the most workers of a pool
MaxPoolWorkers == 2

\* the largest queueSize
MaxQueue == 2

PoolWorkers == 1..MaxPoolWorkers

\* the tasks the callers submit
WpTasks == { "t1", "t2", "t3" }

\* no goroutine has panicked
WpAlive ==
  /\ \A t \in WpTasks : submit[t] # "panic"
  /\ \A w \in PoolWorkers : wpWorker[w].pc # "panic"

\* Start: wp.wg.Add(1); go wp.worker(i), for each of wp.workers
Start ==
  /\ WpAlive
  /\ ~wpStarted
  /\ wpPc \in {"none", "stopped"}
  /\ wpStarted' = TRUE
  /\ wpWorker' = [w \in PoolWorkers |->
                    IF w <= wpWorkers THEN [pc |-> "select", task |-> ""] ELSE wpWorker[w]]
  /\ UNCHANGED << wpWorkers, queueSize, wpPc, taskQueue, taskQueueClosed, resultChan,
                  resultChanClosed, wpCtxDone, submit, wpGot, notWp >>

\* Stop: close(wp.taskQueue), then wp.wg.Wait()
StopClose ==
  /\ WpAlive
  /\ wpPc = "none"
  /\ taskQueueClosed' = TRUE
  /\ wpPc' = "wait"
  /\ UNCHANGED << wpWorkers, queueSize, wpStarted, taskQueue, resultChan,
                  resultChanClosed, wpCtxDone, wpWorker, submit, wpGot, notWp >>

\* wg.Wait() returns with every worker gone; close(wp.resultChan)
StopWaited ==
  /\ WpAlive
  /\ wpPc = "wait"
  /\ \A w \in PoolWorkers : wpWorker[w].pc \in {"unborn", "exited"}
  /\ resultChanClosed' = TRUE
  /\ wpPc' = "closed"
  /\ UNCHANGED << wpWorkers, queueSize, wpStarted, taskQueue, taskQueueClosed,
                  resultChan, wpCtxDone, wpWorker, submit, wpGot, notWp >>

\* wp.cancel()
StopCancel ==
  /\ WpAlive
  /\ wpPc = "closed"
  /\ wpCtxDone' = TRUE
  /\ wpPc' = "stopped"
  /\ UNCHANGED << wpWorkers, queueSize, wpStarted, taskQueue, taskQueueClosed,
                  resultChan, resultChanClosed, wpWorker, submit, wpGot, notWp >>

\* Submit: select { case wp.taskQueue <- task: ...; the queue is open and has room
SubmitEnqueue(t) ==
  /\ WpAlive
  /\ submit[t] = "none"
  /\ ~taskQueueClosed
  /\ Len(taskQueue) < queueSize
  /\ taskQueue' = Append(taskQueue, t)
  /\ submit' = [submit EXCEPT ![t] = "queued"]
  /\ UNCHANGED << wpWorkers, queueSize, wpStarted, wpPc, taskQueueClosed, resultChan,
                  resultChanClosed, wpCtxDone, wpWorker, wpGot, notWp >>

\* ... the send case on the closed queue can proceed, and panics
SubmitPanic(t) ==
  /\ WpAlive
  /\ submit[t] = "none"
  /\ taskQueueClosed
  /\ submit' = [submit EXCEPT ![t] = "panic"]
  /\ UNCHANGED << wpWorkers, queueSize, wpStarted, wpPc, taskQueue, taskQueueClosed,
                  resultChan, resultChanClosed, wpCtxDone, wpWorker, wpGot, notWp >>

\* ... case <-wp.ctx.Done(): the warning, and Submit returns
SubmitRefused(t) ==
  /\ WpAlive
  /\ submit[t] = "none"
  /\ wpCtxDone
  /\ submit' = [submit EXCEPT ![t] = "refused"]
  /\ UNCHANGED << wpWorkers, queueSize, wpStarted, wpPc, taskQueue, taskQueueClosed,
                  resultChan, resultChanClosed, wpCtxDone, wpWorker, wpGot, notWp >>

\* worker: case task, ok := <-wp.taskQueue with ok; result := task.Execute()
PoolWorkerTake(w) ==
  /\ WpAlive
  /\ wpWorker[w].pc = "select"
  /\ taskQueue # << >>
  /\ wpWorker' = [wpWorker EXCEPT ![w] = [pc |-> "send", task |-> Head(taskQueue)]]
  /\ taskQueue' = Tail(taskQueue)
  /\ UNCHANGED << wpWorkers, queueSize, wpStarted, wpPc, taskQueueClosed, resultChan,
                  resultChanClosed, wpCtxDone, submit, wpGot, notWp >>

\* ... with !ok: the queue is closed and drained, the worker returns
PoolWorkerQueueClosed(w) ==
  /\ WpAlive
  /\ wpWorker[w].pc = "select"
  /\ taskQueue = << >>
  /\ taskQueueClosed
  /\ wpWorker' = [wpWorker EXCEPT ![w] = [pc |-> "exited", task |-> ""]]
  /\ UNCHANGED << wpWorkers, queueSize, wpStarted, wpPc, taskQueue, taskQueueClosed,
                  resultChan, resultChanClosed, wpCtxDone, submit, wpGot, notWp >>

\* case <-wp.ctx.Done() of either select: the worker returns
PoolWorkerCtxDone(w) ==
  /\ WpAlive
  /\ wpWorker[w].pc \in {"select", "send"}
  /\ wpCtxDone
  /\ wpWorker' = [wpWorker EXCEPT ![w] = [pc |-> "exited", task |-> ""]]
  /\ UNCHANGED << wpWorkers, queueSize, wpStarted, wpPc, taskQueue, taskQueueClosed,
                  resultChan, resultChanClosed, wpCtxDone, submit, wpGot, notWp >>

\* case wp.resultChan <- result: with room in the channel
PoolWorkerSend(w) ==
  /\ WpAlive
  /\ wpWorker[w].pc = "send"
  /\ ~resultChanClosed
  /\ Len(resultChan) < queueSize
  /\ resultChan' = Append(resultChan, wpWorker[w].task)
  /\ wpWorker' = [wpWorker EXCEPT ![w] = [pc |-> "select", task |-> ""]]
  /\ UNCHANGED << wpWorkers, queueSize, wpStarted, wpPc, taskQueue, taskQueueClosed,
                  resultChanClosed, wpCtxDone, submit, wpGot, notWp >>

\* ... on the closed channel: the send panics
PoolWorkerSendPanic(w) ==
  /\ WpAlive
  /\ wpWorker[w].pc = "send"
  /\ resultChanClosed
  /\ wpWorker' = [wpWorker EXCEPT ![w] = [pc |-> "panic", task |-> @.task]]
  /\ UNCHANGED << wpWorkers, queueSize, wpStarted, wpPc, taskQueue, taskQueueClosed,
                  resultChan, resultChanClosed, wpCtxDone, submit, wpGot, notWp >>

\* the caller receives from Results()
ReadResult ==
  /\ WpAlive
  /\ resultChan # << >>
  /\ wpGot' = wpGot \cup {Head(resultChan)}
  /\ resultChan' = Tail(resultChan)
  /\ UNCHANGED << wpWorkers, queueSize, wpStarted, wpPc, taskQueue, taskQueueClosed,
                  resultChanClosed, wpCtxDone, wpWorker, submit, notWp >>

NextWp ==
  \/ Start
  \/ StopClose
  \/ StopWaited
  \/ StopCancel
  \/ \E t \in WpTasks : SubmitEnqueue(t)
  \/ \E t \in WpTasks : SubmitPanic(t)
  \/ \E t \in WpTasks : SubmitRefused(t)
  \/ \E w \in PoolWorkers : PoolWorkerTake(w)
  \/ \E w \in PoolWorkers : PoolWorkerQueueClosed(w)
  \/ \E w \in PoolWorkers : PoolWorkerCtxDone(w)
  \/ \E w \in PoolWorkers : PoolWorkerSend(w)
  \/ \E w \in PoolWorkers : PoolWorkerSendPanic(w)
  \/ ReadResult

\* NewWorkerPool(workers, queueSize), with a buffered queue
NewWorkerPool ==
  /\ wpWorkers \in PoolWorkers
  /\ queueSize \in 1..MaxQueue
  /\ wpStarted = FALSE
  /\ wpPc = "none"
  /\ taskQueue = << >>
  /\ taskQueueClosed = FALSE
  /\ resultChan = << >>
  /\ resultChanClosed = FALSE
  /\ wpCtxDone = FALSE
  /\ wpWorker = [w \in PoolWorkers |-> [pc |-> "unborn", task |-> ""]]
  /\ submit = [t \in WpTasks |-> "none"]
  /\ wpGot = {}

\* no pool is in use
WpIdle ==
  /\ wpWorkers = 1
  /\ queueSize = 1
  /\ wpStarted = FALSE
  /\ wpPc = "idle"
  /\ taskQueue = << >>
  /\ taskQueueClosed = FALSE
  /\ resultChan = << >>
  /\ resultChanClosed = FALSE
  /\ wpCtxDone = FALSE
  /\ wpWorker = [w \in PoolWorkers |-> [pc |-> "unborn", task |-> ""]]
  /\ submit = [t \in WpTasks |-> "none"]
  /\ wpGot = {}

LastIdle == PermIdle /\ EeIdle /\ WpIdle

MoreIdle == GoIdle /\ SelIdle /\ DlIdle /\ LastIdle

\* the parts of the program a specification does not run
RestIdle == CacheIdle /\ MoreIdle

(***************************************************************************)
(* Specifications                                                          *)
(***************************************************************************)
NormIdle ==
  /\ normInput = ""
  /\ normOnce = ""
  /\ normTwice = ""
  /\ normPc = "idle"

BruteStart(stale) ==
  /\ bfPc = "detect"
  /\ bfCtxDone = FALSE
  /\ bfProbes = 0
  /\ wildcardIPs = stale
  /\ bfNext = 1
  /\ jobs = << >>
  /\ jobsClosed = FALSE
  /\ worker = [w \in Workers |-> [pc |-> "unborn", word |-> ""]]
  /\ bfResults = << >>
  /\ bfResultsClosed = FALSE
  /\ bfDelivered = {}
  /\ bfLookups = {}
  /\ threads \in 1..MaxThreads
  /\ probed = {}

BruteIdle ==
  /\ bfPc = "idle"
  /\ bfCtxDone = FALSE
  /\ bfProbes = 0
  /\ wildcardIPs = {}
  /\ bfNext = 1
  /\ jobs = << >>
  /\ jobsClosed = FALSE
  /\ worker = [w \in Workers |-> [pc |-> "unborn", word |-> ""]]
  /\ bfResults = << >>
  /\ bfResultsClosed = FALSE
  /\ bfDelivered = {}
  /\ bfLookups = {}
  /\ threads = 1
  /\ probed = {}

\* no run of the pipeline is under way
RunIdle ==
  /\ opt = MkOptions(FALSE, FALSE, FALSE, NoStages, NoRegex)
  /\ wildcardInit = "none"
  /\ srcData = [s \in Sources |-> {}]
  /\ srcLeft = 0
  /\ srcClosed = [s \in Sources |-> TRUE]
  /\ srcResults = [s \in Sources |-> 0]
  /\ srcErrors = [s \in Sources |-> 0]
  /\ passiveResults = << >>
  /\ aggPc = "idle"
  /\ uniqueMap = EmptyMap
  /\ sourceMap = EmptyMap
  /\ skippedCounts = EmptyMap
  /\ Tasks = << >>
  /\ tasksClosed = FALSE
  /\ Results = << >>
  /\ resultsClosed = FALSE
  /\ foundResults = EmptyMap
  /\ mainPc = "idle"
  /\ enhancedResults = {}
  /\ statistics = EmptyMap
  /\ output = {}
  /\ returned = [state |-> "running", map |-> EmptyMap]
  /\ emitted = {}
  /\ stageSent = {}
  /\ callbacks = EmptyMap
  /\ taskSends = EmptyMap
  /\ inserts = EmptyMap
  /\ poolAnswer = EmptyMap

vars == << runVars, normVars, bruteVars, cacheVars, moreVars >>

\* one apex, no enhanced stage, the sources' results over the small universe
\* of values
Init == InitRun(PassiveOptions, NarrowValues, MaxEmit) /\ WildcardsFound /\ NormIdle /\ BruteIdle /\ RestIdle

Next == NextPassive

Spec == Init /\ [][Next]_vars

\* the goroutines of the run as the Go scheduler runs them: the aggregator, the
\* workers of the resolver pool and the calling goroutine each take a step
\* they can take
Aggregator == AggError \/ AggSkip \/ AggFiltered \/ AggDuplicate \/ AggAccept \/ AggClose

ResolverPool == PoolResolve \/ PoolClose

Caller == MainRecvResult \/ MainResultsClosed \/ MainWait

SpecFair ==
  /\ Spec
  /\ WF_vars(Aggregator)
  /\ WF_vars(ResolverPool)
  /\ WF_vars(Caller)

\* the same pipeline, few results over the wide universe of values
InitWide == InitRun(PassiveOptions, WideValues, MaxWide) /\ WildcardsFound /\ NormIdle /\ BruteIdle /\ RestIdle

SpecWide == InitWide /\ [][Next]_vars

\* a run with an enhanced stage switched on, after a short passive phase
InitEnhanced == InitRun(EnhancedOptions, SeedValues, MaxSeed) /\ WildcardsFound /\ NormIdle /\ BruteIdle /\ RestIdle

SpecEnhanced == InitEnhanced /\ [][NextRun]_vars

\* a run with the brute-force stage, a passive source naming a host of the
\* stage's wordlist
InitRediscover ==
  InitRun({ o \in EnhancedOptions : o.BruteForce }, RediscoverValues, MaxSeed)
    /\ WildcardsFound /\ NormIdle /\ BruteIdle /\ RestIdle

SpecRediscover == InitRediscover /\ [][NextRun]_vars

\* the passive pipeline with few results, InitWildcards free to fail
InitErrors ==
  InitRun(PassiveOptions, NarrowValues, MaxWide) /\ WildcardsTried /\ NormIdle /\ BruteIdle /\ RestIdle

SpecErrors == InitErrors /\ [][Next]_vars

\* the normalisation alone, over every bounded input
InitNorm ==
  /\ RunIdle
  /\ BruteIdle
  /\ RestIdle
  /\ normInput \in NormInputs
  /\ normOnce = ""
  /\ normTwice = ""
  /\ normPc = "input"

SpecNorm == InitNorm /\ [][NextNorm]_vars

\* BruteForce for the apex, whatever fingerprint an earlier apex left behind
InitBrute ==
  RunIdle /\ NormIdle /\ RestIdle /\ \E stale \in SUBSET IPs : BruteStart(stale)

SpecBrute == InitBrute /\ [][NextBrute]_vars

\* the goroutines of BruteForce and the consumer, as the Go scheduler runs
\* them: each goroutine that can take a step takes one; b.resolve returns, with
\* an answer or an error, within its timeout
Dispatcher ==
  BfProbe \/ BfStartWorkers \/ BfSendJob \/ BfCancelSend \/ BfCloseJobs \/ BfClose

WorkerStep(w) ==
  WorkerTake(w) \/ WorkerLookupFails(w) \/ WorkerLookup(w) \/ WorkerExit(w)

SpecBruteFair ==
  /\ SpecBrute
  /\ WF_vars(Dispatcher)
  /\ \A w \in Workers : WF_vars(WorkerStep(w))
  /\ WF_vars(BfConsume)

\* the cache, one goroutine in Set and one in Get
InitCache == RunIdle /\ NormIdle /\ BruteIdle /\ CacheStart /\ MoreIdle

SpecCache == InitCache /\ [][NextCache]_vars

\* one source's Run, its caller free to cancel ctx and to stop receiving
InitGo == RunIdle /\ NormIdle /\ BruteIdle /\ CacheIdle /\ SelIdle /\ DlIdle /\ LastIdle /\ GoStart

SpecGo == InitGo /\ [][NextGo]_vars

\* the same, the goroutine scheduled whenever it can take a step
SpecGoFair == SpecGo /\ WF_vars(GoStep)

\* the contexts of a run with an active stage
InitDl == RunIdle /\ NormIdle /\ BruteIdle /\ CacheIdle /\ GoIdle /\ SelIdle /\ LastIdle /\ DlStart

SpecDl == InitDl /\ [][NextDl]_vars

\* passive.New over every bounded combination of its arguments
\* GeneratePermutations alone, over every bounded input
InitPerm ==
  RunIdle /\ NormIdle /\ BruteIdle /\ CacheIdle /\ GoIdle /\ SelIdle /\ DlIdle /\ EeIdle
    /\ WpIdle /\ PermStart

\* EnhancedEnumerate with the permutation or the recursive stage
InitEe ==
  RunIdle /\ NormIdle /\ BruteIdle /\ CacheIdle /\ GoIdle /\ SelIdle /\ DlIdle /\ PermIdle
    /\ WpIdle /\ EeStart

\* a WorkerPool with its callers
InitWp ==
  RunIdle /\ NormIdle /\ BruteIdle /\ CacheIdle /\ GoIdle /\ SelIdle /\ DlIdle /\ PermIdle
    /\ EeIdle /\ NewWorkerPool

SpecWp == InitWp /\ [][NextWp]_vars

SpecEe == InitEe /\ [][NextEe]_vars

SpecPerm == InitPerm /\ [][NextPerm]_vars

InitSel == RunIdle /\ NormIdle /\ BruteIdle /\ CacheIdle /\ GoIdle /\ DlIdle /\ LastIdle /\ SelStart

SpecSel == InitSel /\ [][NextSel]_vars

(***************************************************************************)
(* Properties                                                              *)
(***************************************************************************)
NoRegexConfigured == opt.filterRegexes = NilSlice /\ opt.matchRegexes = NilSlice

\* a Subdomain result of source s with raw value v is still in the merged channel
InFlight(s, v) ==
  \E i \in 1..Len(passiveResults) :
    /\ passiveResults[i].Type = "Subdomain"
    /\ passiveResults[i].Source = s
    /\ passiveResults[i].Value = v

\* every Subdomain result <<s, v>> sent so far has been through the aggregator
Processed(s, v) == <<s, v>> \in emitted /\ ~InFlight(s, v)

\* the aggregator takes a Subdomain result off the merged channel in this step
AggTakes == AggReady("Subdomain") /\ passiveResults' = Tail(passiveResults)

\* C1: each distinct normalised host is inserted into uniqueMap once, handed
\* to the ResultCallback at most once and to the resolver pool at most once;
\* a later result for a host already in uniqueMap changes nothing but the
\* host's source set, to which it adds its source.
C1_AtMostOnce ==
  [][ /\ Keys(inserts') = Keys(uniqueMap')
      /\ \A h \in Keys(inserts') : inserts'[h] = 1
      /\ \A h \in Keys(callbacks') : callbacks'[h] <= 1
      /\ \A h \in Keys(taskSends') : taskSends'[h] <= 1
      /\ (AggTakes /\ AggSubdomain \in Keys(uniqueMap)) =>
           /\ uniqueMap' = uniqueMap
           /\ callbacks' = callbacks
           /\ taskSends' = taskSends
           /\ Tasks' = Tasks
           /\ sourceMap' = [sourceMap EXCEPT ![AggSubdomain] = @ \cup {AggHead.Source}]
    ]_vars

\* a host two sources reported, accepted and called back once, all results processed
C1_Witness ==
  /\ aggPc = "done"
  /\ \E h \in Keys(uniqueMap) :
       /\ sourceMap[h] = Sources
       /\ inserts[h] = 1
       /\ CountOf(callbacks, h) = 1
       /\ uniqueMap[h].Source \in Sources

IntroducedBy(s) == { h \in Keys(uniqueMap) : uniqueMap[h].Source = s }

\* C3: with no filter or match regex, the count the statistics report for a
\* source after the post-pass is the number of its Subdomain results that
\* introduced a new host.
C3_StatsFaithful ==
  (returned.state = "ok" /\ opt.Statistics /\ NoRegexConfigured) =>
    \A s \in Sources : statistics[s] = Cardinality(IntroducedBy(s))

\* a source with an out-of-scope result, a duplicate and a fresh one
C3_Witness ==
  /\ returned.state = "ok"
  /\ opt.Statistics
  /\ NoRegexConfigured
  /\ \E s \in Sources :
       /\ srcResults[s] = 3
       /\ skippedCounts[s] = 2
       /\ statistics[s] = 1
       /\ {<<s, "notrelated.other.com">>, <<s, "b.example.com">>} \subseteq emitted

\* the labels of a name
RECURSIVE Labels(_)
Labels(h) ==
  IF \E i \in 1..Len(h) : SubSeq(h, i, i) = "."
  THEN LET i == CHOOSE j \in 1..Len(h) :
                  SubSeq(h, j, j) = "." /\ \A k \in 1..(j - 1) : SubSeq(h, k, k) # "."
       IN {SubSeq(h, 1, i - 1)} \cup Labels(DropPrefix(h, i))
  ELSE {h}

LetterDigit ==
  { "a", "b", "c", "d", "e", "f", "g", "h", "i", "j", "k", "l", "m", "n", "o", "p", "q",
    "r", "s", "t", "u", "v", "w", "x", "y", "z", "0", "1", "2", "3", "4", "5", "6", "7",
    "8", "9" }

\* ^[a-z0-9]([a-z0-9-]{0,61}[a-z0-9])?$
LabelOK(l) ==
  /\ Len(l) \in 1..63
  /\ SubSeq(l, 1, 1) \in LetterDigit
  /\ SubSeq(l, Len(l), Len(l)) \in LetterDigit
  /\ \A i \in 1..Len(l) : SubSeq(l, i, i) \in LetterDigit \cup {"-"}

C5_NoWildcardEmitted ==
  /\ \A r \in Range(bfResults) \cup bfDelivered :
       r.IPs # << >> /\ Range(r.IPs) \cap wildcardIPs = {}
  /\ \A l \in bfLookups :
       (l.answer # << >> /\ Range(l.answer) \subseteq wildcardIPs) => ~l.emitted

\* one candidate dropped as all-wildcard, one emitted with the wildcard address removed
C5_Witness ==
  /\ wildcardIPs # {}
  /\ \E l \in bfLookups : l.answer # << >> /\ Range(l.answer) \subseteq wildcardIPs
  /\ \E r \in bfDelivered :
       \E l \in bfLookups :
         l.name = r.Subdomain /\ l.emitted /\ Len(r.IPs) < Len(l.answer)

\* C6 as stated: with wildcard removal, a host an enhanced stage adds to
\* uniqueMap is sent on the task channel of the resolver pool (the channel is
\* open, the send does not panic).
C6_SubmittedWhileOpen ==
  opt.RemoveWildcard =>
    /\ mainPc # "panic"
    /\ \A h \in Keys(uniqueMap) :
         uniqueMap[h].Source = EnhancedSource => CountOf(taskSends, h) = 1

\* C7 as stated: applying the aggregator's replacement to its own result
\* changes nothing.
C7_Idempotent == normPc = "twice" => normTwice = normOnce

C8Examples ==
  { "https://a.example.com/path", "  a.example.com  ", "*.a.example.com", "A.EXAMPLE.COM" }

\* the result of source s is recorded under host h
AcceptedAs(s, h) == h \in Keys(uniqueMap) /\ h \in Keys(sourceMap) /\ s \in sourceMap[h]

C10_Original ==
  returned.state = "ok" =>
    /\ Keys(returned.map) = FinalAccepted
    /\ \A h \in Keys(returned.map) : returned.map[h] # {}

\* C10 as the code has it: when the run returns without a writer error, the
\* keys of the returned map are the keys of uniqueMap and every value is
\* non-empty; without wildcard removal that is the final accepted set, with
\* it the final accepted set is a subset of the keys.
C10_ReturnedMap ==
  returned.state = "ok" =>
    /\ Keys(returned.map) = Keys(uniqueMap)
    /\ \A h \in Keys(returned.map) : returned.map[h] # {}
    /\ FinalAccepted \subseteq Keys(returned.map)
    /\ ~opt.RemoveWildcard => Keys(returned.map) = FinalAccepted

\* a run with wildcard removal returns a map with a host the pool dropped
C10_Witness ==
  /\ returned.state = "ok"
  /\ opt.RemoveWildcard
  /\ FinalAccepted # {}
  /\ \E h \in Keys(returned.map) : h \notin FinalAccepted /\ poolAnswer[h] = "wildcard"

\* the age, at the last look of the returning Get, of the entry of the latest Set
AgeAtGet == getter.at - lastSet[getter.key].entry.Timestamp

\* C11: with the cache operations run one at a time, a Get after a successful
\* Set returns a hit with exactly the list of the latest Set for the key while
\* the entry's age is at most the TTL, and a miss when the age exceeds the TTL.
C11_RoundTrip ==
  (serial /\ getter.pc = "ret" /\ lastSet[getter.key].set /\ lastSet[getter.key].ok) =>
    IF AgeAtGet <= ttl
    THEN getter.hit /\ getter.results = lastSet[getter.key].entry.Results
    ELSE ~getter.hit

\* a hit at the age of exactly the TTL, for an entry that replaced another
C11_Witness ==
  /\ serial
  /\ getter.pc = "ret"
  /\ getter.hit
  /\ getter.results # << >>
  /\ sets = 2
  /\ ttl = 1
  /\ AgeAtGet = ttl

\* C12 as stated: a Get that runs while a Set replaces an existing unexpired
\* entry R1 by R2 returns a hit with R1 or R2.
C12_AtomicWrite ==
  (/\ getter.pc = "ret"
   /\ getter.during # {}
   /\ getter.clean
   /\ getter.before.set
   /\ getter.before.ok
   /\ getter.at - getter.before.entry.Timestamp <= ttl) =>
    /\ getter.hit
    /\ getter.results \in {getter.before.entry.Results} \cup getter.during


\* C13: on every path of Run (transport error, bad status, decode error,
\* success, cancellation) the stream is closed exactly once when the goroutine
\* returns, never more than once, and no result is sent on it after the close.
C13_ClosedOnce ==
  /\ closes <= 1
  /\ (goPc = "exited") <=> (closes = 1)
  /\ goPc \in {"sendError", "sendSubdomain"} => closes = 0
  /\ closes = 1 => outgoing = NoResult

C13_Witness ==
  /\ goPc = "exited"
  /\ ctxErr
  /\ Len(stream) = 2
  /\ closes = 1

\* C14 as stated: once ctx is cancelled the source sends at most one more
\* result, an Error: no Subdomain result is sent after the cancellation.
C14_NoSubdomainAfterCancel ==
  \A i \in 1..Len(stream) :
    stream[i].afterCancel => stream[i].Type = "Error"

\* C15 as stated: once ctx is cancelled and the consumer has stopped receiving,
\* the goroutine of Run terminates and the stream is closed.
C15_CancelTerminates ==
  (ctxErr /\ ~consumer) ~> (goPc = "exited" /\ closes = 1)

\* the selection as the specification words it, over the names of the sources
AllNames == { registry[i].Name : i \in 1..Len(registry) }

SourceNamed(n) == registry[CHOOSE i \in 1..Len(registry) : registry[i].Name = n]

ExpectedSelection ==
  LET start == IF selArgs.useAllSources THEN AllNames
               ELSE IF selArgs.sourceNames # << >>
                    THEN Range(selArgs.sourceNames) \cap AllNames
                    ELSE { n \in AllNames : SourceNamed(n).IsDefault }
      kept == start \ Range(selArgs.excludedSourceNames)
  IN IF selArgs.useSourcesSupportingRecurse
     THEN { n \in kept : SourceNamed(n).HasRecursiveSupport }
     ELSE kept

\* C16: for every include list, exclude list, useAll and recursiveOnly, the
\* sources New selects are: all if useAll, else the known ones named in
\* include if it is non-empty (an unknown name is warned about and ignored),
\* else the default ones; minus the excluded; minus, when recursiveOnly, those
\* without recursive support.
C16_Selection ==
  selPc \in {"returned", "exit"} =>
    /\ DOMAIN selSources = ExpectedSelection
    /\ \A k \in DOMAIN selSources : selSources[k] = SourceNamed(k)
    /\ (~selArgs.useAllSources) =>
         warnings = Range(selArgs.sourceNames) \ AllNames

C16_Witness ==
  /\ selPc = "returned"
  /\ selArgs.sourceNames = << "Wayback", "crtsh" >>
  /\ selArgs.excludedSourceNames = << "wayback" >>
  /\ selArgs.useSourcesSupportingRecurse
  /\ ~selArgs.useAllSources
  /\ DOMAIN selSources = {"crtsh"}
  /\ warnings = {"Wayback"}

\* C17: when the selection leaves no source New does not return: the process
\* exits with the message and no agent exists; otherwise the agent holds
\* exactly the selected sources, each once.
C17_AgentSources ==
  selPc \in {"returned", "exit"} =>
    IF ExpectedSelection = {}
    THEN selPc = "exit" /\ agent = << >> /\ mainPc = "idle"
    ELSE /\ selPc = "returned"
         /\ Len(agent) = Cardinality(ExpectedSelection)
         /\ { agent[i] : i \in 1..Len(agent) } = { SourceNamed(n) : n \in ExpectedSelection }

C17_Witness ==
  /\ selPc = "exit"
  /\ selArgs.useAllSources
  /\ selArgs.useSourcesSupportingRecurse
  /\ selArgs.excludedSourceNames = << "crtsh" >>

\* the name the specification gives the stage the options switch on
StageName(options) ==
  IF options.BruteForce THEN "brute"
  ELSE IF options.Permutations THEN "permutation"
  ELSE "recursive"

\* C18 as stated: a host first introduced by an active stage is recorded with
\* a HostEntry source, and an attribution entry, equal to the name of the stage
\* that produced it: "brute", "permutation" or "recursive".
C18_StageAttribution ==
  \A h \in Keys(uniqueMap) :
    uniqueMap[h].Source \notin Sources =>
      /\ uniqueMap[h].Source = StageName(opt)
      /\ StageName(opt) \in sourceMap[h]

\* the hosts the passive phase accepted: the seeds of the stages
PassiveSeeds == { h \in Keys(uniqueMap) : uniqueMap[h].Source \in Sources }

\* the candidates the permutation and the recursive stage generate from the
\* seeds, before any test
Generated(options, domain, found) ==
  (IF options.Permutations THEN GeneratePermutations(permGen, found, domain) ELSE {})
  \cup
  (IF options.Recursive /\ ~(0 >= options.MaxDepth)
   THEN { pref \o "." \o FirstLabel(sub) \o "." \o domain :
            sub \in { x \in found : NumParts(x) >= 3 },
            pref \in Table(commonPrefixes) }
   ELSE {})

\* the DNS zone of the apex: the hosts whose lookup succeeds
Resolving == {"a_b.example.com", "www.example.com", "admin-a_b.example.com"}

\* C19 as stated: a permutation or recursive candidate enters the accepted set
\* if and only if its DNS lookup succeeds, with and without wildcard removal.
C19_LookupDecides ==
  (opt.Permutations \/ opt.Recursive) =>
    /\ \A h \in Keys(uniqueMap) :
         uniqueMap[h].Source = EnhancedSource => h \in Resolving
    /\ mainPc \in {"output", "stats", "returned"} =>
         \A c \in Generated(opt, Apex, PassiveSeeds) \cap Resolving :
           filterAndMatchSubdomain(opt, c) => c \in Keys(uniqueMap)

\* the aggregator takes an Error result of a source from the merged channel
TakesSourceError ==
  /\ passiveResults # << >>
  /\ Head(passiveResults).Type = "Error"
  /\ passiveResults' = Tail(passiveResults)

\* the calling goroutine takes an Error result of the resolver pool
TakesPoolError ==
  /\ Results # << >>
  /\ Head(Results).Type = "Error"
  /\ Results' = Tail(Results)

\* C20: an Error result of a source, a failed wildcard initialisation and an
\* Error result of the resolver pool leave the accepted set and the attribution
\* map as they are and do not end the run; the call returns an error only from
\* the step that writes to the output sinks.
C20_ErrorsDoNotAbort ==
  /\ [](wildcardInit = "failed" =>
          /\ returned.state = "error" => output = {}
          /\ mainPc \notin {"panic", "crashed"})
  /\ [][ /\ (TakesSourceError \/ TakesPoolError) =>
             /\ UNCHANGED << uniqueMap, sourceMap, foundResults, returned >>
             /\ mainPc' = mainPc
         /\ (returned'.state = "error" /\ returned.state # "error") => mainPc = "output"
       ]_vars

C20_Witness ==
  /\ wildcardInit = "failed"
  /\ returned.state = "ok"
  /\ \E s \in Sources : srcErrors[s] > 0
  /\ \E h \in Keys(poolAnswer) : poolAnswer[h] = "error"
  /\ Keys(uniqueMap) # {}
  /\ returned.map = sourceMap

\* C21 as stated: max-enumeration-time bounds the whole enumeration: once the
\* deadline has fired the active stage starts no further lookup.
C21_DeadlineStopsStages == lateLookups = 0

\* the hosts whose attribution set holds the source
AttributedTo(s) == { h \in Keys(sourceMap) : s \in sourceMap[h] }

\* C22 as stated: after the post-pass the count the statistics report for a
\* source equals the number of hosts whose attribution set holds that source.
C22_StatsMatchAttribution ==
  (returned.state = "ok" /\ opt.Statistics) =>
    \A s \in Sources : statistics[s] = Cardinality(AttributedTo(s))

\* C23: with a ResultCallback registered, the callback is invoked at most once
\* for any host, and when the call has returned it has been invoked exactly
\* once for each host of the final output and for no other host: without
\* wildcard removal the hosts accepted (passive or active stage), with it the
\* hosts whose first Subdomain result came back from the resolver pool.
C23_CallbackOncePerHost ==
  opt.ResultCallback =>
    /\ \A h \in Keys(callbacks) : callbacks[h] = 1
    /\ returned.state = "ok" =>
         /\ Keys(callbacks) = FinalAccepted
         /\ output = FinalAccepted
         /\ opt.RemoveWildcard =>
              \A h \in Keys(poolAnswer) :
                poolAnswer[h] # "resolved" => h \notin Keys(callbacks)

\* without wildcard removal: a passive host and a host of an active stage
C23_Witness ==
  /\ returned.state = "ok"
  /\ opt.ResultCallback
  /\ ~opt.RemoveWildcard
  /\ \E h \in Keys(callbacks) : uniqueMap[h].Source = EnhancedSource
  /\ \E h \in Keys(callbacks) : uniqueMap[h].Source \in Sources

\* C24: attribution grows monotonically: every step of a run, in the passive
\* phase and in the phase of the active stages, keeps every host of the
\* attribution map and every source of its set.
C24_AttributionMonotonic ==
  [][ \A h \in Keys(sourceMap) :
        /\ h \in Keys(sourceMap')
        /\ sourceMap[h] \subseteq sourceMap'[h] ]_vars

\* a host two sources reported and a host an active stage added, at the return
C24_Witness ==
  /\ returned.state = "ok"
  /\ returned.map = sourceMap
  /\ \E h \in Keys(sourceMap) : sourceMap[h] = Sources
  /\ \E h \in Keys(sourceMap) : EnhancedSource \in sourceMap[h]

\* the aggregator takes a Subdomain result that lies under the apex and that
\* the filter/match policy rejects
TakesFiltered ==
  /\ AggReady("Subdomain")
  /\ ValidSubdomain(AggSubdomain, Apex)
  /\ ~filterAndMatchSubdomain(opt, AggSubdomain)
  /\ passiveResults' = Tail(passiveResults)

\* C25 as stated: a Subdomain result under the apex that the filter/match
\* policy rejects is neither accepted nor attributed, and it increments
\* skipped[source], so that the post-pass takes it out of the source's count.
C25_FilteredIsSkipped ==
  [][ TakesFiltered =>
        /\ UNCHANGED << uniqueMap, sourceMap >>
        /\ skippedCounts' = Incr(skippedCounts, AggHead.Source) ]_vars

\* the aggregator takes a Subdomain result that passes validation
TakesValid ==
  /\ AggReady("Subdomain")
  /\ ValidSubdomain(AggSubdomain, Apex)
  /\ filterAndMatchSubdomain(opt, AggSubdomain)
  /\ passiveResults' = Tail(passiveResults)

\* C26 as stated: every result that passes validation adds its source to the
\* attribution set of its host, new or not; when an active stage reports a host
\* a passive source introduced, the stage's name (or the name the code gives
\* the enhanced phase) is in that host's attribution set once the results of
\* the stage have been added.
C26_AlwaysAttributed ==
  /\ [][ TakesValid => AggHead.Source \in sourceMap'[AggSubdomain] ]_vars
  /\ [](mainPc \in {"output", "stats", "returned"} =>
          \A h \in stageSent :
            filterAndMatchSubdomain(opt, h) =>
              /\ h \in Keys(sourceMap)
              /\ {StageName(opt), EnhancedSource} \cap sourceMap[h] # {})

\* C27: first-seen wins: no step changes the HostEntry of a host; every
\* validated result leaves its host in the unique map, so a host missing from
\* the map has had no earlier result; and the entry made for a new host names
\* the source of the result that is being taken (the enhanced phase's name for
\* a result of an active stage).
C27_FirstSeenWins ==
  [][ /\ \A h \in Keys(uniqueMap) :
           h \in Keys(uniqueMap') /\ uniqueMap'[h] = uniqueMap[h]
      /\ TakesValid => AggSubdomain \in Keys(uniqueMap')
      /\ \A h \in Keys(uniqueMap') \ Keys(uniqueMap) :
           /\ uniqueMap'[h].Host = h
           /\ uniqueMap'[h].Source =
                IF mainPc = "add" THEN EnhancedSource ELSE AggHead.Source
           /\ mainPc # "add" => AggSubdomain = h ]_vars

\* a host both sources reported, entered under the second source's name, and a
\* host of an active stage
C27_Witness ==
  /\ mainPc = "output"
  /\ \E h \in Keys(uniqueMap) : sourceMap[h] = Sources /\ uniqueMap[h].Source = "s2"
  /\ \E h \in Keys(uniqueMap) : uniqueMap[h].Source = EnhancedSource

\* the regexes of a configured list that match the host
Matching(regexes, h) ==
  { re \in UNION { Range(rs) : rs \in regexes } : MatchString(re, h) }

\* the policy in the words of C28
PolicyAccepts(options, h) ==
  /\ Matching(options.filterRegexes, h) = {}
  /\ \/ options.matchRegexes = NilSlice
     \/ Matching(options.matchRegexes, h) # {}

\* C28: filterAndMatchSubdomain(h) is true if and only if no filter regex
\* matches h and (no match regexes are configured or at least one match regex
\* matches h), for every host the run can normalise a result to, and the
\* aggregator records a result under the apex exactly when that holds; a
\* host matched by both a filter regex and a match regex is rejected.
C28_FilterBeforeMatch ==
  /\ [](\A v \in DOMAIN Normalised :
          /\ filterAndMatchSubdomain(opt, Normalised[v])
               <=> PolicyAccepts(opt, Normalised[v])
          /\ ( /\ Matching(opt.filterRegexes, Normalised[v]) # {}
               /\ Matching(opt.matchRegexes, Normalised[v]) # {} )
               => ~filterAndMatchSubdomain(opt, Normalised[v]))
  /\ [][ (AggTakes /\ ValidSubdomain(AggSubdomain, Apex)) =>
          (AggSubdomain \in Keys(uniqueMap') <=> PolicyAccepts(opt, AggSubdomain)) ]_vars

\* a run with both lists configured is over: the host both lists match was sent
\* and is not in the output, the host only the match list matches is
C28_Witness ==
  /\ mainPc = "output"
  /\ \E s \in Sources : Processed(s, "*.a.example.com")
  /\ Matching(opt.filterRegexes, "a.example.com") # {}
  /\ Matching(opt.matchRegexes, "a.example.com") # {}
  /\ "a.example.com" \notin Keys(uniqueMap)
  /\ "b.example.com" \in Keys(uniqueMap)

\* the candidate of the i-th word of the wordlist
Candidate(i) == wordlist[i] \o "." \o Apex

\* the workers that stand in b.resolve
LookupsInFlight == { w \in Workers : worker[w].pc = "lookup" }

\* where the i-th word is: on the jobs channel, with a worker, resolved
Queued(i) == { k \in 1..Len(jobs) : jobs[k] = wordlist[i] }
HeldBy(i) == { w \in LookupsInFlight : worker[w].word = wordlist[i] }
ResolvedAs(i) == { l \in bfLookups : l.name = Candidate(i) }
Places(i) == Cardinality(Queued(i)) + Cardinality(HeldBy(i)) + Cardinality(ResolvedAs(i))

\* C29: absent cancellation, BruteForce resolves each entry w of the wordlist
\* exactly once, as the candidate w.D, by exactly one worker (a word handed to
\* the pool is in one place only: on the jobs channel, with one worker, or
\* resolved once; when BruteForce is over each word has been resolved once), and
\* at no time are more than T lookups in flight.
C29_EachWordOnce ==
  /\ Cardinality(LookupsInFlight) <= threads
  /\ \A l \in bfLookups : \E i \in 1..Len(wordlist) : l.name = Candidate(i)
  /\ \A i \in 1..Len(wordlist) :
       /\ Places(i) <= 1
       /\ (~bfCtxDone /\ i < bfNext) => Places(i) = 1
       /\ (~bfCtxDone /\ bfPc = "done") => Cardinality(ResolvedAs(i)) = 1

\* an uncancelled BruteForce is over, its two workers resolved one word each
C29_Witness ==
  /\ bfPc = "done"
  /\ ~bfCtxDone
  /\ threads = 2
  /\ Len(wordlist) = 2
  /\ \E l1, l2 \in bfLookups : l1.by # l2.by /\ l1.name # l2.name

\* C30: after ctx is cancelled, BruteForce starts no lookup for the words
\* still queued; the dispatcher and all T workers exit; the result channel is
\* closed only when every worker has finished, it is closed once and nothing
\* is sent on it afterwards; and a consumer ranging over the channel comes to
\* the end of it.
C30_CancelStopsLookups ==
  /\ [][ bfCtxDone =>
          \A w \in Workers : worker'[w].pc = "lookup" => worker[w].pc = "lookup" ]_vars
  /\ [](bfResultsClosed =>
          /\ bfPc = "done"
          /\ \A w \in Spawned(threads) : worker[w].pc = "exited"
          /\ ~ENABLED BfClose)
  /\ [][ bfResultsClosed =>
          /\ bfResultsClosed'
          /\ bfResults' \in { bfResults, Tail(bfResults) } ]_vars
  /\ bfCtxDone ~>
       ( /\ bfPc = "done"
         /\ \A w \in Spawned(threads) : worker[w].pc = "exited"
         /\ bfResultsClosed
         /\ bfResults = << >> )

\* ctx was cancelled after a lookup, BruteForce is over and the consumer at the
\* end of the channel; a word that was queued has never been resolved
C30_Witness ==
  /\ bfCtxDone
  /\ bfPc = "done"
  /\ bfResultsClosed
  /\ bfResults = << >>
  /\ bfDelivered # {}
  /\ \E i \in 1..Len(wordlist) : i < bfNext /\ ResolvedAs(i) = {}
  /\ \A w \in Spawned(threads) : worker[w].pc = "exited"

\* a worker of this BruteForce has been started
WorkersStarted == \E w \in Workers : worker[w].pc # "unborn"

\* C31: the wildcard fingerprint used for apex D is the union of the
\* addresses the probes under D answered, with nothing carried over from an
\* earlier apex; it is completely written (all probes made) before any worker
\* exists to read it, and it does not change once workers have been started.
C31_FingerprintPerApex ==
  /\ [](bfProbes > 0 => wildcardIPs = probed)
  /\ [](WorkersStarted => bfProbes = DetectProbes /\ wildcardIPs = probed)
  /\ [][ WorkersStarted => wildcardIPs' = wildcardIPs ]_vars

\* a worker resolves a candidate against a fingerprint of one address, the
\* three probes made
C31_Witness ==
  /\ bfProbes = DetectProbes
  /\ Cardinality(wildcardIPs) = 1
  /\ wildcardIPs = probed
  /\ \E w \in Workers : worker[w].pc = "lookup"

\* the tokens of the rules of C32
RuleTokens ==
  Range(commonWords) \cup Range(numbers) \cup Range(environments) \cup Range(regions)

\* the candidates the rules of C32 define for the hosts H and the apex D
RuleSet(H, D) ==
  UNION { LET sub == SubSeq(h, 1, Len(h) - Len(D) - 1)
          IN { t \o sep \o sub \o "." \o D : t \in RuleTokens, sep \in {"-", "_", ""} }
             \cup { sub \o sep \o t \o "." \o D : t \in RuleTokens, sep \in {"-", "_", ""} }
             \cup { sub \o i \o "." \o D : i \in Range(sequential) }
             \cup { sub \o "-" \o i \o "." \o D : i \in Range(sequential) }
        : h \in { x \in H : HasSuffix(x, "." \o D) } }

\* C32: GeneratePermutations(H, D) returns, without duplicates, exactly the
\* set the rules define (prefix and suffix forms of every token with every
\* separator, and the numeric suffixes 1..10 bare and after "-", for every host
\* under D; nothing for hosts not under D and for D itself); the set is a
\* function of H and D; api.example.com yields api-dev and dev-api.
C32_PermutationSet ==
  permPc = "returned" =>
    /\ \A c \in BagToSet(permResult) : CopiesIn(c, permResult) = 1
    /\ BagToSet(permResult) = RuleSet(Range(permFound), permDomain)
    /\ (\A i \in 1..Len(permFound) :
           ~HasSuffix(permFound[i], "." \o permDomain)) => permResult = EmptyBag
    /\ ("api.example.com" \in Range(permFound) /\ permDomain = "example.com") =>
         { "api-dev.example.com", "dev-api.example.com" } \subseteq BagToSet(permResult)

\* the call returned the candidates of api.example.com for a list that also
\* holds the apex and api.example.com a second time
C32_Witness ==
  /\ permPc = "returned"
  /\ permDomain = "example.com"
  /\ permFound = << "api.example.com", "example.com", "api.example.com" >>
  /\ "api-dev.example.com" \in BagToSet(permResult)
  /\ "api10.example.com" \in BagToSet(permResult)
  /\ "us_api.example.com" \in BagToSet(permResult)

\* the candidates of C33: p.l.D for the first label l of every discovered
\* host and every prefix p of the list
PrefixedLabels(hosts, D) ==
  { pref \o "." \o FirstLabel(h) \o "." \o D : h \in hosts, pref \in Table(commonPrefixes) }

\* C33: with recursion enabled and MaxDepth > 0 the recursive stage tests
\* exactly the candidates p.l.D for the first label l of every discovered
\* host and every prefix p of the list (all of them once the stage has returned
\* with ctx live), each at most once; with MaxDepth <= 0 it tests none; a
\* candidate it tests is never one derived from its own outputs.
C33_RecursiveCandidates ==
  eeArgs.stage = "recursive" =>
    LET expected == IF eeArgs.MaxDepth > 0
                    THEN PrefixedLabels(eeArgs.seeds, Apex)
                    ELSE {}
    IN /\ \A c \in BagToSet(eeTests) : c \in expected /\ CopiesIn(c, eeTests) = 1
       /\ (eeStagePc = "returned" /\ ~eeCtxDone) => BagToSet(eeTests) = expected

\* the stage has returned, ctx live, with one test for two hosts of the same
\* first label; the host it reported was not expanded
C33_Witness ==
  /\ eeArgs.stage = "recursive"
  /\ eeArgs.MaxDepth > 0
  /\ eeArgs.seeds = { "a.example.com", "a.b.example.com" }
  /\ eeStagePc = "returned"
  /\ ~eeCtxDone
  /\ eeSent = { "api.a.example.com" }
  /\ eeTests = SetToBag({ "api.a.example.com" })

\* C34 as stated: the slice EnhancedEnumerate returns holds the passive seeds
\* and every host a stage sent on the shared results channel, and the map
\* allResults is never read by one goroutine while another writes it.
C34_ReturnsEverySent ==
  /\ eePc = "returned" => (eeArgs.seeds \cup eeSent) \subseteq eeSeen
  /\ ~eeRace
  /\ eePc # "fatal"

\* C35 as stated: the stage does not report completion while one of its
\* workers can still send, and no worker sends on the shared results channel
\* after EnhancedEnumerate has closed it.
C35_NoSendAfterClose ==
  /\ eeStagePc = "returned" =>
       \A c \in EeCandidates : eeWorker[c] \in {"unborn", "done"}
  /\ \A c \in EeCandidates : eeWorker[c] # "panic"

\* C36: with wildcard removal, once the merged passive channel is closed the
\* aggregator closes the task channel (once: it is then done, and only after
\* its last send), the caller drains the resolver's results to the end and
\* goes on to the output, neither waiting for the other forever; the unique
\* and the attribution map are written by the aggregator alone while it runs
\* and the caller comes to them only after wg.Wait().
C36_DrainTerminates ==
  /\ [](opt.RemoveWildcard =>
          /\ tasksClosed <=> aggPc = "done"
          /\ tasksClosed => ~ENABLED AggClose /\ ~ENABLED AggAccept
          /\ mainPc \notin {"results", "wait"} => aggPc = "done")
  /\ [][ opt.RemoveWildcard =>
          /\ tasksClosed => tasksClosed' /\ (Tasks' = Tasks \/ (Tasks # << >> /\ Tasks' = Tail(Tasks)))
          /\ (uniqueMap' # uniqueMap \/ sourceMap' # sourceMap) =>
               aggPc = "loop" /\ mainPc \in {"results", "wait"} /\ mainPc' = mainPc ]_vars
  /\ (opt.RemoveWildcard /\ PassiveClosed) ~>
       ( /\ tasksClosed /\ Tasks = << >>
         /\ resultsClosed /\ Results = << >>
         /\ mainPc \in {"output", "stats", "returned"} )

\* a run with wildcard removal has come to the output: a task was sent, the
\* task channel closed, the results drained with a resolved host among them
C36_Witness ==
  /\ opt.RemoveWildcard
  /\ mainPc = "output"
  /\ tasksClosed /\ resultsClosed
  /\ Tasks = << >> /\ Results = << >>
  /\ Keys(foundResults) # {}
  /\ Cardinality(Keys(uniqueMap)) = 2

\* the complete entry a file holds is not expired
HoldsFresh(file) ==
  /\ file.exists
  /\ UnmarshalOk(file.data)
  /\ ~Expired(Unmarshal(file.data), now, ttl)

\* C37: the os.Remove of a Get that read an expired entry never removes a
\* complete unexpired entry that a Set has written in the meantime, and so a
\* Get that starts after a successful Set has returned, with no Set running
\* beside it, is a hit with that Set's list while the entry's age is at most
\* the TTL.
C37_FreshEntrySurvives ==
  /\ [][ (getter.pc = "check" /\ getter'.pc = "ret" /\ files' # files) =>
           ~HoldsFresh(files[getter.key]) ]_vars
  /\ []( ( /\ getter.pc = "ret"
           /\ getter.during = {}
           /\ getter.clean
           /\ getter.before.set
           /\ getter.before.ok
           /\ getter.at - getter.before.entry.Timestamp <= ttl ) =>
          /\ getter.hit
          /\ getter.results = getter.before.entry.Results )

\* Clear has been called
Cleared == ~dir

\* C38: after Clear a Get of a key not set since misses, every Set succeeds
\* and, the operations run one at a time, a Get after such a Set returns its
\* list while the entry's age is at most the TTL.
C38_UsableAfterClear ==
  Cleared =>
    /\ \A k \in CacheKeys : lastSet[k].set => lastSet[k].ok
    /\ getter.pc = "ret" =>
         IF lastSet[getter.key].set /\ AgeAtGet <= ttl
         THEN getter.hit /\ getter.results = lastSet[getter.key].entry.Results
         ELSE ~getter.hit

\* C39: no Submit sends on the closed task queue: a Submit that has acted has
\* put its task on the queue while the queue was open, or has returned with
\* the warning that the pool is shutting down.
C39_SubmitNeverPanics ==
  /\ [](\A t \in WpTasks : submit[t] \in {"none", "queued", "refused"})
  /\ [][ \A t \in WpTasks :
           (submit[t] = "none" /\ submit'[t] = "queued") => ~taskQueueClosed ]_vars

====
